---- MODULE Spec2Model ----
(***************************************************************************)
(* State-machine model of repair/scan.c (xfsprogs): the per-AG scan of the *)
(* free-list, the two freespace btrees and the two inode btrees, and the   *)
(* block-state map they fill.                                              *)
(***************************************************************************)
EXTENDS Integers, Sequences, FiniteSets, TLC

(***************************************************************************)
(* Bounds of the model.                                                    *)
(***************************************************************************)
\* sb_agcount: allocation groups of the image
NumAGs == 2
\* sb_agblocks: blocks per allocation group
AgBlocks == 4
\* values of the on-disk 32-bit fields are taken modulo U32 (2^32, scaled)
U32 == 8
\* m_alloc_mxr / m_inobt_mxr: most records a btree block holds
MxRecs == 2
\* deepest tree an AG header declares
MaxLevels == 2
\* XFS_AGFL_SIZE: slots of the AG free list
AgflSize == 2
\* on-disk items an AG of the image holds: free-list entries, blocks and
\* records of the freespace trees (FsItems), blocks and records of the inode
\* trees (InoItems), forks with an extent tree and blocks of extent trees
\* (BmItems)
FsItems == 3
InoItems == 2
BmItems == 2
\* scan_threads: worker threads of the work queue
scan_threads == 2

\* m_alloc_mnr / m_inobt_mnr: fewest records a non-root btree block holds
MnRecs == 1
\* inodes of one inode chunk
XFS_INODES_PER_CHUNK == 2

AGs == 0 .. (NumAGs - 1)
Blocks == 0 .. (AgBlocks - 1)
Words == 0 .. (U32 - 1)

(***************************************************************************)
(* Block states, the XR_E_ values of the block-state map.                  *)
(***************************************************************************)
XR_E_UNKNOWN == "UNKNOWN"
XR_E_FREE1 == "FREE1"
XR_E_FREE == "FREE"
XR_E_INUSE == "INUSE"
XR_E_INUSE_FS == "INUSE_FS"
XR_E_MULT == "MULT"
XR_E_INO == "INO"
XR_E_FS_MAP == "FS_MAP"
XR_E_BAD_STATE == "BAD_STATE"

States ==
  {XR_E_UNKNOWN, XR_E_FREE1, XR_E_FREE, XR_E_INUSE, XR_E_INUSE_FS,
   XR_E_MULT, XR_E_INO, XR_E_FS_MAP, XR_E_BAD_STATE}

VARIABLES
  no_modify,   \* the process-wide diagnosis-only flag
  geom,        \* the inode geometry of the superblock
  bnoseen,     \* bnoseen[a]: the blocks in the range of a valid by-offset record
  ino_tree,    \* ino_tree[a]: the authoritative in-core inode records
  uncertain,   \* uncertain[a]: the inodes filed as uncertain
  pc,          \* pc[a]: the stage scan_ag(a) has reached
  bmap,        \* bmap[a][b]: the block-state map
  agcnts,      \* agcnts[a]: struct aghdr_cnts of AG a
  stack,       \* stack[a]: the scan_sbtree calls of AG a's task in progress
  fuel,        \* fuel[a]: on-disk items of AG a not read yet, by kind
  warned,      \* do_warn messages of the last step
  op,          \* the last step and the on-disk input it read
  bm_cursor,   \* bm_cursor[l]: the bmap_cursor_t level l of the fork walked
  lstack,      \* the scan_lbtree calls in progress
  ag_locks,    \* ag_locks[a]: the lock of AG a is held
  hdr_dirty,   \* hdr_dirty[a]: the header buffers scan_ag(a) has to write
  worker,      \* worker[a]: the thread that runs or ran scan_ag(a), 0 if none
  wq,          \* the tasks queued and not taken by a worker yet
  dispatch     \* scan_ags: its stage, its loop index and its totals

\* the state of the extent-tree walk, and the state of the work queue
lbvars == <<bm_cursor, lstack, ag_locks>>
poolvars == <<hdr_dirty, worker, wq, dispatch>>

vars ==
  <<no_modify, geom, bnoseen, ino_tree, uncertain, pc, bmap, agcnts, stack,
    fuel, warned, op, bm_cursor, lstack, ag_locks, hdr_dirty, worker, wq,
    dispatch>>

(***************************************************************************)
(* Helpers.                                                                *)
(***************************************************************************)
Wrap(x) == x % U32

\* verify_agbno(mp, agno, agbno): the block lies inside the AG
verify_agbno(agno, agbno) == agbno < AgBlocks

\* set_bmap_ext(agno, agbno, blen, state) on the slice m of one AG
set_bmap_ext(m, agbno, blen, state) ==
  [b \in Blocks |-> IF b >= agbno /\ b < agbno + blen THEN state ELSE m[b]]

\* set_bmap(agno, agbno, state)
set_bmap(m, agbno, state) == set_bmap_ext(m, agbno, 1, state)

\* get_bmap_ext(agno, agbno, maxbno, &blen): the state at agbno and the length
\* of the run of blocks in that state, cut at maxbno
get_bmap_ext(m, agbno, maxbno) ==
  LET same(n) == \A k \in 0 .. (n - 1) :
                   agbno + k < maxbno /\ agbno + k < AgBlocks
                   /\ m[agbno + k] = m[agbno]
      blen == CHOOSE n \in 1 .. AgBlocks :
                same(n) /\ (n = AgBlocks \/ ~same(n + 1))
  IN [state |-> m[agbno], blen |-> blen]

ZeroCnts ==
  [agffreeblks |-> 0, agflongest |-> 0, agfbtreeblks |-> 0, agicount |-> 0,
   agifreecount |-> 0, fdblocks |-> 0, ifreecount |-> 0, fibtfreecount |-> 0]

NoOp == [act |-> "none", agno |-> 0, arg |-> <<>>]

\* a reduction that reads the last slot only
SumOverLast(f, S) ==
  IF S = {} THEN 0 ELSE f[CHOOSE x \in S : \A y \in S : y <= x]

\* the sum of f over the set S, as the loop of scan_ags adds the slots up
RECURSIVE SumOver(_, _)
SumOver(f, S) ==
  IF S = {} THEN 0
  ELSE LET a == CHOOSE x \in S : TRUE IN f[a] + SumOver(f, S \ {a})

\* the threads of the work queue
Workers == 1 .. scan_threads

\* the status bits of verify_set_agheader, and the three header buffers
XR_AG_SB == "XR_AG_SB"
XR_AG_AGF == "XR_AG_AGF"
XR_AG_AGI == "XR_AG_AGI"
XR_AG_SB_SEC == "XR_AG_SB_SEC"
StatusBits == {XR_AG_SB, XR_AG_AGF, XR_AG_AGI, XR_AG_SB_SEC}
HdrBufs == {"sbbuf", "agfbuf", "agibuf"}

\* the filesystem block agbno of AG agno, and back
XFS_AGB_TO_FSB(agno, agbno) == agno * AgBlocks + agbno
XFS_FSB_TO_AGNO(fsbno) == fsbno \div AgBlocks
XFS_FSB_TO_AGBNO(fsbno) == fsbno % AgBlocks
\* NULLFSBLOCK, the all-ones block number: no block of the filesystem
NULLFSBLOCK == NumAGs * AgBlocks
\* verify_dfsbno(mp, fsbno): the block lies inside the filesystem
verify_dfsbno(fsbno) == fsbno < NumAGs * AgBlocks

\* file offsets, the keys of an extent tree; NULLFILEOFF is the all-ones
\* offset
MaxKey == 1
NULLFILEOFF == MaxKey + 1
Keys == 0 .. NULLFILEOFF

\* the levels of an extent tree below the root in the inode fork
BmLevels == 0 .. (MaxLevels - 1)

\* init_bm_cursor: no block seen on any level
InitCursor ==
  [l \in BmLevels |->
     [fsbno |-> NULLFSBLOCK, left_fsbno |-> NULLFSBLOCK,
      right_fsbno |-> NULLFSBLOCK, first_key |-> NULLFILEOFF,
      last_key |-> NULLFILEOFF]]

\* a dispatcher that hands every task the slot of AG 0
TaskZero(i) == [agno |-> i, slot |-> 0]

\* queue_work(&wq, scan_ag, i, &agcnts[i]): the task of AG i and the slot
\* of agcnts it accumulates into
Task(i) == [agno |-> i, slot |-> i]

\* scan_ags before it queues a task, and after it has queued the tasks of
\* the AGs below i
DispatchAt(i) ==
  [stage |-> IF i < NumAGs THEN "queue" ELSE "wait", i |-> i,
   fdblocks |-> 0, agicount |-> 0, ifreecount |-> 0]

(***************************************************************************)
(* The state before scan_ag runs.  The block-state map starts UNKNOWN but  *)
(* for the blocks set aside before the scan: the header block of every AG, *)
(* and a reserved region (log, pre-allocated inodes) some images have.     *)
(***************************************************************************)
\* first_prealloc_ino, last_prealloc_ino: the pre-allocated inodes of AG 0
first_prealloc_ino == 1
last_prealloc_ino == 2

\* the reserved region covers the first r blocks of the AG
InitSlice(r) ==
  [b \in Blocks |-> IF b < r THEN XR_E_INUSE_FS ELSE XR_E_UNKNOWN]

\* one scan_ag task has been queued, for an AG among ags, of an image that
\* holds at most fs, ino and bm items of each kind in that AG and reserves
\* one of the regions rs
InitWith(ags, nomods, geoms, rs, budgets) ==
  /\ no_modify \in nomods
  /\ geom \in geoms
  /\ bnoseen = [a \in AGs |-> {}]
  /\ ino_tree = [a \in AGs |-> {}]
  /\ uncertain = [a \in AGs |-> {}]
  /\ \E a0 \in ags : pc = [a \in AGs |-> IF a = a0 THEN "queued" ELSE "idle"]
  /\ \E r \in rs : bmap = [a \in AGs |-> InitSlice(IF pc[a] = "idle" THEN 1 ELSE r)]
  /\ agcnts = [a \in AGs |-> ZeroCnts]
  /\ stack = [a \in AGs |-> <<>>]
  /\ \E b \in budgets : fuel = [a \in AGs |-> b]
  /\ warned = {}
  /\ op = NoOp
  /\ bm_cursor = InitCursor
  /\ lstack = <<>>
  /\ ag_locks = [a \in AGs |-> FALSE]
  /\ hdr_dirty = [a \in AGs |-> {}]
  /\ worker = [a \in AGs |-> 0]
  /\ wq = <<Task(CHOOSE a \in AGs : pc[a] = "queued")>>
  /\ dispatch = DispatchAt(NumAGs)

\* sb_inopblock inodes in a block; fs_ino_alignment when the image has
\* aligned inodes, else 0; the sparse-inode and free-inode-tree features
Geom(inopb, align, sparse, finobt) ==
  [inopblock |-> inopb, align |-> align, sparse |-> sparse, finobt |-> finobt]

\* the on-disk items of one AG an image holds: blocks and records of the
\* freespace trees and AGFL entries, of the allocation inode tree, of the
\* free-inode tree, and extent-tree blocks
Budget(fs, ino, fino, bm) ==
  [fs |-> fs, ino |-> ino, fino |-> fino, bm |-> bm, hdr |-> 0]

\* an image with hdr damaged headers in the AG besides
DamagedBudget(b, hdr) == [b EXCEPT !.hdr = hdr]

Init ==
  InitWith({0}, BOOLEAN, {Geom(1, 0, TRUE, TRUE)}, {2},
           {Budget(FsItems, 0, 0, 0), Budget(0, InoItems, InoItems, 0),
            Budget(1, 0, 0, BmItems), Budget(0, 1, 0, BmItems)})

(***************************************************************************)
(* scan_ag: the header triple is read and verified.                        *)
(***************************************************************************)
\* a stage in which a worker is inside scan_ag
Running(st) == st \notin {"idle", "queued", "done", "exited"}

\* the threads of the work queue that run no task; the threads are
\* interchangeable and the one of lowest number takes the next task
IdleWorkers ==
  {w \in Workers : \A x \in AGs : worker[x] = w => ~Running(pc[x])}
NextWorker == CHOOSE w \in IdleWorkers : \A v \in IdleWorkers : w <= v

\* the buffers scan_ag holds when the read of buffer b fails, which the
\* out_free labels release
HeldBefore(b) ==
  CASE b = "sbbuf" -> {}
    [] b = "agfbuf" -> {"sbbuf"}
    [] b = "agibuf" -> {"sbbuf", "agfbuf"}

\* the buffers the status bits make dirty when the image may be modified
DirtyOf(status) ==
  (IF status \cap {XR_AG_SB, XR_AG_SB_SEC} # {} THEN {"sbbuf"} ELSE {})
  \cup (IF XR_AG_AGF \in status THEN {"agfbuf"} ELSE {})
  \cup (IF XR_AG_AGI \in status THEN {"agibuf"} ELSE {})

\* a scan_ag that goes on with the AG whatever the headers are like
SkipAgNever(status) == FALSE

\* "if (status && no_modify)", after XR_AG_SB_SEC has been cleared from the
\* status: the AG is skipped
SkipAg(status) == (status \ {XR_AG_SB_SEC}) # {} /\ no_modify

\* a worker takes the task at the head of the queue and runs scan_ag up to
\* scan_freelist.  readerr: the header buffer whose read fails; the buffers
\* read before it are released and do_error ends the process.  status: the
\* bits of verify_set_agheader.  The argument of the step lists the read
\* that failed, the status and the buffers released in the step.
ScanAgStart(a) ==
  /\ pc[a] = "queued"
  /\ wq # <<>>
  /\ Head(wq).agno = a
  /\ IdleWorkers # {}
  /\ wq' = Tail(wq)
  /\ worker' = [worker EXCEPT ![a] = NextWorker]
  /\ \E readerr \in HdrBufs \cup {"none"}, status \in SUBSET StatusBits :
       /\ Cardinality(status) <= fuel[a].hdr
       /\ readerr # "none" => status = {}
       /\ LET bad == status \ {XR_AG_SB_SEC}
              skip == SkipAg(status)
          IN IF readerr # "none"
               THEN /\ pc' = [x \in AGs |-> "exited"]
                    /\ warned' = {"can't get header"}
                    /\ hdr_dirty' = hdr_dirty
                    /\ op' = [act |-> "scan_ag", agno |-> a,
                              arg |-> <<readerr, status, HeldBefore(readerr)>>]
               ELSE /\ pc' = [pc EXCEPT ![a] = IF skip THEN "done"
                                               ELSE "freelist"]
                    /\ warned' = (IF bad # {} THEN {"reset bad agheader"}
                                  ELSE {})
                                 \cup (IF skip
                                       THEN {"bad uncorrected agheader"}
                                       ELSE {})
                    /\ hdr_dirty' = [hdr_dirty EXCEPT ![a] =
                                       IF no_modify THEN {}
                                       ELSE DirtyOf(status)]
                    /\ op' = [act |-> "scan_ag", agno |-> a,
                              arg |-> <<readerr, status,
                                        IF skip THEN HdrBufs ELSE {}>>]
  /\ UNCHANGED <<lbvars, dispatch, no_modify, geom, bnoseen, ino_tree,
                 uncertain, bmap, agcnts, stack, fuel>>

(***************************************************************************)
(* scan_freelist.                                                          *)
(***************************************************************************)
\* the for (;;) loop over the free list, from slot i to slot fllast
RECURSIVE AgflWalk(_, _, _, _, _, _)
AgflWalk(agno, m, freelist, i, fllast, acc) ==
  LET bno == freelist[i]
      ok == verify_agbno(agno, bno)
      m1 == IF ok THEN set_bmap(m, bno, XR_E_FREE) ELSE m
      acc1 == [count |-> acc.count + 1, bad |-> acc.bad \/ ~ok]
  IN IF i = fllast
       THEN [m |-> m1, count |-> acc1.count, bad |-> acc1.bad]
       ELSE AgflWalk(agno, m1, freelist,
                     IF i + 1 = AgflSize THEN 0 ELSE i + 1, fllast, acc1)

\* the header blocks: with sectors smaller than a block the superblock, the
\* AGF, the AGI and the AGFL all lie in block 0 of the AG
XFS_SB_BLOCK == 0
XFS_AGF_BLOCK == 0
XFS_AGI_BLOCK == 0
XFS_AGFL_BLOCK == 0

\* a scan_freelist that stops after the first slot of the list
scan_freelist_first_slot(a, flcount, flfirst, fllast, freelist) ==
  LET ok == flfirst < AgflSize /\ verify_agbno(a, freelist[flfirst])
  IN IF flcount = 0
       THEN [m |-> bmap[a], count |-> 0, warns |-> {}, bufs |-> <<0, 0>>]
       ELSE [m |-> IF ok THEN set_bmap(bmap[a], freelist[flfirst], XR_E_FREE)
                         ELSE bmap[a],
             count |-> 1,
             warns |-> IF flcount # 1
                         THEN {"freeblk count != flcount"} ELSE {},
             bufs |-> <<1, 1>>]

\* scan_freelist: the walk of the free list of the AG, with the map of the
\* AG after it, the number of slots walked, the warnings, and the number of
\* AGFL buffers it got from libxfs_readbuf and gave to libxfs_putbuf
scan_freelist(a, flcount, flfirst, fllast, freelist) ==
  LET m0 == IF /\ XFS_SB_BLOCK # XFS_AGFL_BLOCK
               /\ XFS_AGF_BLOCK # XFS_AGFL_BLOCK
               /\ XFS_AGI_BLOCK # XFS_AGFL_BLOCK
            THEN set_bmap(bmap[a], XFS_AGFL_BLOCK, XR_E_FS_MAP)
            ELSE bmap[a]
      skip == no_modify /\ (flfirst >= AgflSize \/ fllast >= AgflSize)
      w == AgflWalk(a, m0, freelist, flfirst, fllast,
                    [count |-> 0, bad |-> FALSE])
  IN IF flcount = 0
       THEN [m |-> m0, count |-> 0, warns |-> {}, bufs |-> <<0, 0>>]
     ELSE IF skip
       THEN [m |-> m0, count |-> 0, warns |-> {"freelist blocks bad"},
             bufs |-> <<1, 0>>]
     ELSE [m |-> w.m, count |-> w.count,
           warns |-> (IF w.bad THEN {"bad agbno in agfl"} ELSE {})
                     \cup (IF w.count # flcount
                           THEN {"freeblk count != flcount"} ELSE {}),
           bufs |-> <<1, 1>>]

ScanFreelist(a) ==
  /\ pc[a] = "freelist"
  /\ \E flcount \in 0 .. (AgflSize + 1), flfirst \in 0 .. AgflSize,
        fllast \in 0 .. AgflSize, freelist \in [0 .. (AgflSize - 1) -> 0 .. AgBlocks] :
       \* verify_set_agheader repairs flfirst and fllast unless no_modify
       /\ no_modify \/ (flfirst < AgflSize /\ fllast < AgflSize)
       \* the fields and the slots scan_freelist does not read are left out
       \* of the input
       /\ flcount = 0 => flfirst = 0 /\ fllast = 0
       /\ \A i \in 0 .. (AgflSize - 1) :
            (\/ flcount = 0 \/ flfirst >= AgflSize \/ fllast >= AgflSize
             \/ (flfirst <= fllast /\ (i < flfirst \/ i > fllast))
             \/ (flfirst > fllast /\ i < flfirst /\ i > fllast))
            => freelist[i] = 0
       /\ \E r \in {scan_freelist(a, flcount, flfirst, fllast, freelist)} :
             /\ r.count <= fuel[a].fs
             /\ fuel' = [fuel EXCEPT ![a].fs = @ - r.count]
             /\ bmap' = [bmap EXCEPT ![a] = r.m]
             /\ agcnts' = [agcnts EXCEPT ![a].fdblocks = @ + r.count]
             /\ warned' = r.warns
             /\ op' = [act |-> "scan_freelist", agno |-> a,
                       arg |-> <<flcount, flfirst, fllast, freelist,
                                 r.bufs>>]
  /\ pc' = [pc EXCEPT ![a] = "bno"]
  /\ UNCHANGED <<lbvars, poolvars, no_modify, geom, bnoseen, ino_tree, uncertain, stack>>


(***************************************************************************)
(* scan_sbtree and the freespace visitor scan_allocbt.                     *)
(***************************************************************************)
\* a call scan_sbtree(root, nlevels, agno, suspect, func, isroot, ...) made
\* and not yet run
CallFrame(root, nlevels, suspect, isroot) ==
  [kind |-> "call", bno |-> root, level |-> nlevels, suspect |-> suspect,
   isroot |-> isroot, i |-> 0, numrecs |-> 0, lastblock |-> 0,
   lastcount |-> 0]

\* the budget the stage of AG a draws on
FuelKind(a) ==
  CASE pc[a] \in {"ino", "inowalk"} -> "ino"
    [] pc[a] \in {"fino", "finowalk"} -> "fino"
    [] OTHER -> "fs"

Top(a) == stack[a][Len(stack[a])]
Pop(a) == SubSeq(stack[a], 1, Len(stack[a]) - 1)
SetTop(a, f) == [stack[a] EXCEPT ![Len(stack[a])] = f]

IsBno(a) == pc[a] = "bnowalk"
TreeName(a) == IF pc[a] \in {"bno", "bnowalk"} THEN "bno" ELSE "cnt"

\* validate_agf: the root of the by-offset or of the by-count tree, of an
\* AGF whose agf_levels is one of Levels
ValidateAgfRootWith(a, Levels) ==
  /\ pc[a] \in {"bno", "cnt"}
  /\ \E bno \in 0 .. AgBlocks, nlevels \in Levels :
       /\ op' = [act |-> "validate_agf", agno |-> a, arg |-> <<bno, nlevels>>]
       /\ IF bno # 0 /\ verify_agbno(a, bno)
            THEN /\ fuel[a].fs > 0
                 /\ stack' = [stack EXCEPT ![a] =
                                <<CallFrame(bno, nlevels, 0, TRUE)>>]
                 /\ pc' = [pc EXCEPT ![a] =
                             IF pc[a] = "bno" THEN "bnowalk" ELSE "cntwalk"]
                 /\ warned' = {}
            ELSE /\ stack' = stack
                 /\ pc' = [pc EXCEPT ![a] =
                             IF pc[a] = "bno" THEN "cnt" ELSE "agfcheck"]
                 /\ warned' = {"bad agbno for root"}
  /\ UNCHANGED <<lbvars, poolvars, no_modify, geom, bnoseen, ino_tree, uncertain, bmap, agcnts, fuel>>

\* validate_agf on an AGF whose trees are at most MaxLevels deep
ValidateAgfRoot(a) == ValidateAgfRootWith(a, 1 .. MaxLevels)

\* a visitor that walks as many records as the block says it holds
ClipRecsAsRead(numrecs, isroot) ==
  [n |-> numrecs, bad |-> numrecs > MxRecs \/ (~isroot /\ numrecs < MnRecs)]

\* numrecs forced into [min, max]: the records the visitor will walk and
\* whether the count on disk was out of bounds
ClipRecs(numrecs, isroot) ==
  LET n1 == IF numrecs > MxRecs THEN MxRecs ELSE numrecs
      n2 == IF ~isroot /\ n1 < MnRecs THEN MnRecs ELSE n1
  IN [n |-> n2, bad |-> numrecs > MxRecs \/ (~isroot /\ n1 < MnRecs)]

\* a visitor that goes below an interior block whatever the flag says
BailOutNever(leaf, hdr_errors, suspect) == FALSE

\* "bail out if two levels in a row look bad": an interior block with a
\* header error that was entered with the suspect flag set is returned from
BailOut(leaf, hdr_errors, suspect) ==
  ~leaf /\ hdr_errors # 0 /\ suspect # 0

\* a visitor that never tells the children of a block that it looked bad
SuspectPassedClear(leaf, hdr_errors, suspect) ==
  IF leaf THEN (IF hdr_errors # 0 THEN suspect + 1 ELSE suspect) ELSE 0

\* the suspect flag the visitor goes on with: one more after a header error;
\* else a leaf keeps it and an interior block clears it for its children
SuspectPassed(leaf, hdr_errors, suspect) ==
  IF hdr_errors # 0 THEN suspect + 1
  ELSE IF leaf THEN suspect ELSE 0

\* a scan_allocbt that takes a multiply claimed block for the tree
AllocbtBlockStateTakesMult(state) ==
  IF state \in {XR_E_UNKNOWN, XR_E_MULT} THEN XR_E_FS_MAP ELSE XR_E_MULT

\* a scan_allocbt that leaves a block that is already taken as it is
AllocbtBlockStateKeeps(state) ==
  IF state # XR_E_UNKNOWN THEN state ELSE XR_E_FS_MAP

\* the state scan_allocbt gives to the btree block it visits
AllocbtBlockState(state) ==
  IF state # XR_E_UNKNOWN THEN XR_E_MULT ELSE XR_E_FS_MAP

\* scan_sbtree reads one freespace btree block and scan_allocbt checks its
\* header and claims the block.  The arguments of the step are the block,
\* the number of magic and level errors, the suspect flag after the read,
\* whether the record count was out of bounds when the visitor read it, and
\* the record count it read, if it got that far.
ScanAllocbtBlock(a) ==
  /\ pc[a] \in {"bnowalk", "cntwalk"}
  /\ stack[a] # <<>>
  /\ Top(a).kind = "call"
  /\ \E berr \in {"ok", "EFSBADCRC", "EFSCORRUPTED"}, magicok \in BOOLEAN,
        bb_level \in 0 .. (MaxLevels - 1), bb_numrecs \in 0 .. (MxRecs + 1) :
       LET f == Top(a)
           level == f.level - 1
           suspect == IF berr # "ok" THEN 1 ELSE f.suspect
           w0 == IF berr # "ok" THEN {"btree block is suspect"} ELSE {}
           badmagic == ~magicok
           badlevel == bb_level # level
           hdr0 == (IF badmagic THEN 1 ELSE 0) + (IF badlevel THEN 1 ELSE 0)
           ret1 == badmagic /\ suspect # 0
           ret2 == badlevel /\ suspect # 0
           counted == ~ret1 /\ ~f.isroot
           state == bmap[a][f.bno]
           claimed == ~ret1 /\ ~ret2
           ret3 == claimed /\ state # XR_E_UNKNOWN
           clip == ClipRecs(bb_numrecs, f.isroot)
           hdr == hdr0 + (IF clip.bad THEN 1 ELSE 0)
           leaf == level = 0
           ret4 == BailOut(leaf, hdr, suspect)
           returns == ret1 \/ ret2 \/ ret3 \/ ret4
           suspect1 == SuspectPassed(leaf, hdr, suspect)
           w1 == (IF badmagic THEN {"bad magic"} ELSE {})
                 \cup (IF ~ret1 /\ badlevel THEN {"expected level"} ELSE {})
                 \cup (IF ret3 THEN {"freespace btree block claimed"} ELSE {})
                 \cup (IF claimed /\ ~ret3 /\ hdr # 0
                       THEN {"bad btree nrecs"} ELSE {})
       IN /\ fuel[a].fs > (IF returns THEN 0 ELSE IF leaf THEN clip.n ELSE 0)
          /\ fuel' = [fuel EXCEPT ![a].fs = @ - 1]
          /\ agcnts' = IF counted
                         THEN [agcnts EXCEPT ![a].agfbtreeblks = @ + 1,
                                             ![a].fdblocks = @ + 1]
                         ELSE agcnts
          /\ bmap' = IF claimed
                       THEN [bmap EXCEPT ![a] =
                               set_bmap(@, f.bno, AllocbtBlockState(state))]
                       ELSE bmap
          /\ warned' = w0 \cup w1
          /\ stack' = [stack EXCEPT ![a] =
                         IF returns THEN Pop(a)
                         ELSE SetTop(a, [f EXCEPT
                                !.kind = IF leaf THEN "leaf" ELSE "node",
                                !.level = level, !.suspect = suspect1,
                                !.numrecs = clip.n])]
          /\ op' = [act |-> "scan_allocbt", agno |-> a,
                    arg |-> <<f.bno, hdr0, suspect,
                              claimed /\ ~ret3 /\ clip.bad,
                              IF claimed /\ ~ret3 THEN <<bb_numrecs>>
                              ELSE <<>>>>]
  /\ UNCHANGED <<lbvars, poolvars, no_modify, geom, bnoseen, ino_tree, uncertain, pc>>


\* the loop over the blocks of one freespace record, from b to end
RECURSIVE AllocRecWalk(_, _, _, _)
AllocRecWalk(m, b, end, iscnt) ==
  IF ~(b < end) \/ ~(b < AgBlocks)
    THEN [m |-> m, warn |-> FALSE]
    ELSE LET e == get_bmap_ext(m, b, end)
             r == IF e.state = XR_E_UNKNOWN
                    THEN [m |-> set_bmap(m, b, XR_E_FREE1), warn |-> FALSE]
                  ELSE IF e.state = XR_E_FREE1 /\ iscnt
                    THEN [m |-> set_bmap_ext(m, b, e.blen, XR_E_FREE),
                          warn |-> FALSE]
                  ELSE [m |-> m, warn |-> TRUE]
             rest == AllocRecWalk(r.m, b + e.blen, end, iscnt)
         IN [m |-> rest.m, warn |-> r.warn \/ rest.warn]

\* one record of a freespace leaf: the body of the for loop of scan_allocbt
AllocRec(a, iscnt, f, b, len) ==
  LET end == Wrap(b + len)
      badstart == b = 0 \/ ~verify_agbno(a, b)
      badlen == len = 0 \/ ~verify_agbno(a, Wrap(end - 1))
      skip == badstart \/ badlen
      w == AllocRecWalk(bmap[a], b, end, iscnt)
      order == IF iscnt THEN len < f.lastcount ELSE b <= f.lastblock
      c == agcnts[a]
  IN [m |-> IF skip THEN bmap[a] ELSE w.m,
      cnts |-> IF skip \/ ~iscnt THEN c
               ELSE [c EXCEPT !.fdblocks = @ + len,
                              !.agffreeblks = Wrap(@ + len),
                              !.agflongest = IF len > @ THEN len ELSE @],
      seen |-> IF skip \/ iscnt THEN {} ELSE {x \in Blocks : b <= x /\ x < end},
      frame |-> [f EXCEPT
                   !.i = @ + 1,
                   !.lastblock = IF skip \/ iscnt \/ order THEN @ ELSE b,
                   !.lastcount = IF skip \/ ~iscnt \/ order THEN @ ELSE len],
      warns |-> IF badstart THEN {"invalid start block"}
                ELSE IF badlen THEN {"invalid length"}
                ELSE (IF order THEN {"out-of-order record"} ELSE {})
                     \cup (IF w.warn THEN {"multiply claimed"} ELSE {})]

ScanAllocbtRec(a) ==
  /\ pc[a] \in {"bnowalk", "cntwalk"}
  /\ stack[a] # <<>>
  /\ Top(a).kind = "leaf"
  /\ Top(a).i < Top(a).numrecs
  /\ \E b \in 0 .. AgBlocks, len \in Words :
     \E r \in {AllocRec(a, pc[a] = "cntwalk", Top(a), b, len)} :
          /\ bmap' = [bmap EXCEPT ![a] = r.m]
          /\ agcnts' = [agcnts EXCEPT ![a] = r.cnts]
          /\ stack' = [stack EXCEPT ![a] = SetTop(a, r.frame)]
          /\ warned' = r.warns
          /\ bnoseen' = [bnoseen EXCEPT ![a] = @ \cup r.seen]
          /\ op' = [act |-> "allocbt_rec", agno |-> a, arg |-> <<b, len>>]
  /\ fuel' = [fuel EXCEPT ![a].fs = @ - 1]
  /\ UNCHANGED <<lbvars, poolvars, no_modify, geom, ino_tree, uncertain, pc>>

\* one child pointer of an interior block: scan_sbtree on the child when the
\* pointer is a block of the AG
ScanSbtreePtr(a) ==
  /\ pc[a] \in {"bnowalk", "cntwalk", "inowalk", "finowalk"}
  /\ stack[a] # <<>>
  /\ Top(a).kind = "node"
  /\ Top(a).i < Top(a).numrecs
  /\ \E bno \in 0 .. AgBlocks :
       LET f == Top(a)
           f1 == [f EXCEPT !.i = @ + 1]
           descend == bno # 0 /\ verify_agbno(a, bno)
       IN /\ descend => fuel[a][FuelKind(a)] > MnRecs
          /\ stack' = [stack EXCEPT ![a] =
                IF descend
                  THEN Append(SetTop(a, f1),
                              CallFrame(bno, f.level, f.suspect, FALSE))
                  ELSE SetTop(a, f1)]
          /\ op' = [act |-> "btree_ptr", agno |-> a, arg |-> <<bno>>]
  /\ warned' = {}
  /\ UNCHANGED <<lbvars, poolvars, no_modify, geom, bnoseen, ino_tree, uncertain, pc, bmap, agcnts, fuel>>

\* a walk of a tree from which validate_agf and validate_agi never go on
NextStageStuck(st) == st

\* a validate_agi that walks the allocation inode tree again after the
\* free-inode tree
NextStageAgain(st) ==
  CASE st = "bnowalk" -> "cnt"
    [] st = "cntwalk" -> "agfcheck"
    [] st = "inowalk" -> "fino"
    [] st = "finowalk" -> "ino"
    [] OTHER -> st

\* the stage validate_agf or validate_agi goes on to when the walk of a tree
\* has returned
NextStage(st) ==
  CASE st = "bnowalk" -> "cnt"
    [] st = "cntwalk" -> "agfcheck"
    [] st = "inowalk" -> "fino"
    [] st = "finowalk" -> "agicheck"
    [] OTHER -> st

\* the visitor has walked every record of the block: scan_sbtree releases
\* the buffer and returns; the walk of the tree ends with the root
SbtreeDone(a) ==
  /\ pc[a] \in {"bnowalk", "cntwalk", "inowalk", "finowalk"}
  /\ stack[a] # <<>>
  /\ Top(a).kind \in {"leaf", "node"}
  /\ Top(a).i = Top(a).numrecs

SbtreeReturn(a) ==
  /\ SbtreeDone(a)
  /\ stack' = [stack EXCEPT ![a] = Pop(a)]
  /\ warned' = {}
  /\ op' = [act |-> "return", agno |-> a, arg |-> <<>>]
  /\ UNCHANGED <<lbvars, poolvars, no_modify, geom, bnoseen, ino_tree, uncertain, pc, bmap, agcnts, fuel>>

\* the call on the root has returned to validate_agf or validate_agi
WalkDone(a) ==
  /\ pc[a] \in {"bnowalk", "cntwalk", "inowalk", "finowalk"}
  /\ stack[a] = <<>>
  /\ pc' = [pc EXCEPT ![a] = NextStage(pc[a])]
  /\ warned' = {}
  /\ op' = [act |-> "walk_done", agno |-> a, arg |-> <<>>]
  /\ UNCHANGED <<lbvars, poolvars, no_modify, geom, bnoseen, ino_tree, uncertain, bmap, agcnts, stack, fuel>>

\* validate_agf: the counters of the AGF against the counts of the walk
ValidateAgfCounts(a) ==
  /\ pc[a] = "agfcheck"
  /\ \E agf_freeblks \in Words, agf_longest \in Words,
        agf_btreeblks \in 0 .. FsItems, lazysbcount \in BOOLEAN :
       /\ warned' =
            (IF agf_freeblks # agcnts[a].agffreeblks
             THEN {"agf_freeblks"} ELSE {})
            \cup (IF agf_longest # agcnts[a].agflongest
                  THEN {"agf_longest"} ELSE {})
            \cup (IF lazysbcount /\ agf_btreeblks # agcnts[a].agfbtreeblks
                  THEN {"agf_btreeblks"} ELSE {})
  /\ op' = [act |-> "validate_agf_counts", agno |-> a, arg |-> <<>>]
  /\ pc' = [pc EXCEPT ![a] = "ino"]
  /\ UNCHANGED <<lbvars, poolvars, no_modify, geom, bnoseen, ino_tree, uncertain, bmap, agcnts, stack, fuel>>

(***************************************************************************)
(* The inode btree records.  A record rp is                                *)
(*   [startino, free, holemask, freecount, count]:                         *)
(* ir_startino, the inodes whose ir_free bit is set, the inodes whose      *)
(* ir_holemask bit is set, ir_freecount and ir_count.                      *)
(***************************************************************************)
ChunkOffsets == 0 .. (XFS_INODES_PER_CHUNK - 1)
AgInodes == 0 .. (AgBlocks * 2 * XFS_INODES_PER_CHUNK)

InoRecs ==
  [startino : AgInodes, free : SUBSET ChunkOffsets,
   holemask : SUBSET ChunkOffsets,
   freecount : 0 .. (XFS_INODES_PER_CHUNK - 1),
   count : 1 .. XFS_INODES_PER_CHUNK]

XFS_AGINO_TO_AGBNO(ino) == ino \div geom.inopblock
XFS_AGINO_TO_OFFSET(ino) == ino % geom.inopblock
XFS_INOBT_IS_FREE_DISK(rp, j) == j \in rp.free

\* ino_issparse(rp, offset)
ino_issparse(rp, offset) ==
  IF ~geom.sparse THEN FALSE ELSE offset \in rp.holemask

\* verify_aginum(mp, agno, agino): TRUE when the inode number is no inode
\* of the AG
verify_aginum(agno, agino) ==
  agino = 0 \/ XFS_AGINO_TO_AGBNO(agino) >= AgBlocks

\* find_inode_rec_range(mp, agno, lo, hi, &first, &last): the start of the
\* first in-core record with an inode in [lo, hi), or -1
find_inode_rec_range(agno, lo, hi) ==
  LET hits == {r.ino_startnum : r \in
                 {q \in ino_tree[agno] :
                    q.ino_startnum < hi
                    /\ q.ino_startnum + XFS_INODES_PER_CHUNK > lo}}
  IN IF hits = {} THEN -1
     ELSE CHOOSE x \in hits : \A y \in hits : x <= y

InoRecAt(agno, ino) ==
  CHOOSE r \in ino_tree[agno] : r.ino_startnum = ino

\* an alignment check that raises the suspicion of every record and asks
\* the caller to skip none
verify_single_ino_chunk_align_noskip(agno, rp, suspect) ==
  [suspect |-> suspect + 1, skip |-> FALSE, warns |-> {"badly aligned rec"}]

\* verify_single_ino_chunk_align
verify_single_ino_chunk_align(agno, rp, suspect) ==
  LET ino == rp.startino
      off == XFS_AGINO_TO_OFFSET(ino)
      agbno == XFS_AGINO_TO_AGBNO(ino)
      badalign ==
        \/ ino = 0
        \/ (geom.inopblock <= XFS_INODES_PER_CHUNK /\ off # 0)
        \/ (geom.inopblock > XFS_INODES_PER_CHUNK
            /\ off % XFS_INODES_PER_CHUNK # 0)
        \/ (geom.align # 0 /\ agbno % geom.align # 0)
      s1 == IF badalign THEN suspect + 1 ELSE suspect
      w1 == IF badalign THEN {"badly aligned rec"} ELSE {}
  IN IF verify_aginum(agno, ino)
       THEN [suspect |-> s1 + 1, skip |-> TRUE,
             warns |-> w1 \cup {"bad starting inode"}]
     ELSE IF verify_aginum(agno, ino + XFS_INODES_PER_CHUNK - 1)
       THEN [suspect |-> s1 + 1, skip |-> TRUE,
             warns |-> w1 \cup {"bad ending inode"}]
     ELSE [suspect |-> s1, skip |-> FALSE, warns |-> w1]

\* the sparse inodes import_single_ino_chunk marks in the new record: those
\* before the first sparse inode that is not free
RECURSIVE ImportSparse(_, _, _, _)
ImportSparse(rp, j, suspect, authoritative) ==
  IF j >= XFS_INODES_PER_CHUNK
    THEN [suspect |-> suspect, sparse |-> {}, nfree |-> 0, ninodes |-> 0,
          warn |-> FALSE]
    ELSE IF ino_issparse(rp, j)
      THEN LET mismatch == suspect = 0 /\ ~XFS_INOBT_IS_FREE_DISK(rp, j)
               s1 == IF mismatch THEN suspect + 1 ELSE suspect
               rest == ImportSparse(rp, j + 1, s1, authoritative)
           IN [rest EXCEPT
                 !.sparse = IF s1 = 0 /\ authoritative
                              THEN @ \cup {j} ELSE @,
                 !.warn = @ \/ mismatch]
      ELSE LET rest == ImportSparse(rp, j + 1, suspect, authoritative)
           IN [rest EXCEPT
                 !.nfree = @ + (IF XFS_INOBT_IS_FREE_DISK(rp, j)
                                THEN 1 ELSE 0),
                 !.ninodes = @ + 1]

\* an import_single_ino_chunk that marks every inode of the chunk used
import_single_ino_chunk_nofree(agno, rp, suspect) ==
  LET ino == rp.startino
      w == ImportSparse(rp, 0, suspect, suspect = 0)
      rec == [ino_startnum |-> ino, free |-> {}, sparse |-> w.sparse]
  IN [tree |-> IF suspect = 0 THEN ino_tree[agno] \cup {rec}
               ELSE ino_tree[agno],
      unc |-> IF suspect = 0 THEN uncertain[agno]
              ELSE uncertain[agno] \cup {<<ino + j, FALSE>> : j \in ChunkOffsets},
      suspect |-> w.suspect, nfree |-> w.nfree, ninodes |-> w.ninodes,
      warns |-> IF w.warn THEN {"ir_holemask/ir_free mismatch"} ELSE {}]

\* an import_single_ino_chunk that makes an authoritative record of every
\* record, suspect or not
import_single_ino_chunk_always(agno, rp, suspect) ==
  LET w == ImportSparse(rp, 0, suspect, TRUE)
      rec == [ino_startnum |-> rp.startino, free |-> rp.free,
              sparse |-> w.sparse]
  IN [tree |-> ino_tree[agno] \cup {rec}, unc |-> uncertain[agno],
      suspect |-> w.suspect, nfree |-> w.nfree, ninodes |-> w.ninodes,
      warns |-> IF w.warn THEN {"ir_holemask/ir_free mismatch"} ELSE {}]

\* import_single_ino_chunk: the in-core trees after the import, the inodes
\* counted and the suspect count
import_single_ino_chunk(agno, rp, suspect) ==
  LET ino == rp.startino
      w == ImportSparse(rp, 0, suspect, suspect = 0)
      rec == [ino_startnum |-> ino, free |-> rp.free, sparse |-> w.sparse]
  IN [tree |-> IF suspect = 0 THEN ino_tree[agno] \cup {rec}
               ELSE ino_tree[agno],
      unc |-> IF suspect = 0 THEN uncertain[agno]
              ELSE uncertain[agno] \cup
                     {<<ino + j, XFS_INOBT_IS_FREE_DISK(rp, j)>> :
                        j \in ChunkOffsets},
      suspect |-> w.suspect, nfree |-> w.nfree, ninodes |-> w.ninodes,
      warns |-> IF w.warn THEN {"ir_holemask/ir_free mismatch"} ELSE {}]

\* the inode lies among the pre-allocated inodes of AG 0
InPrealloc(agno, agino) ==
  agno = 0 /\ agino >= first_prealloc_ino /\ agino < last_prealloc_ino

\* a scan_single_ino_chunk that leaves the block it claims as it found it
InoChunkBlockStateKeeps(agno, agino, state) == state

\* the state scan_single_ino_chunk gives to a block of the chunk; the state
\* itself when the block is taken
InoChunkBlockState(agno, agino, state) ==
  IF state = XR_E_UNKNOWN THEN XR_E_INO
  ELSE IF state = XR_E_INUSE_FS /\ InPrealloc(agno, agino) THEN XR_E_INO
  ELSE state

InoChunkConflict(agno, agino, state) ==
  ~(state = XR_E_UNKNOWN
    \/ (state = XR_E_INUSE_FS /\ InPrealloc(agno, agino)))

\* the loop of scan_single_ino_chunk over the blocks of the chunk, from the
\* inode at offset j
RECURSIVE InoChunkWalk(_, _, _, _)
InoChunkWalk(agno, m, rp, j) ==
  IF j >= XFS_INODES_PER_CHUNK THEN [m |-> m, conflict |-> FALSE]
  ELSE IF ino_issparse(rp, j)
    THEN InoChunkWalk(agno, m, rp, j + geom.inopblock)
  ELSE LET agbno == XFS_AGINO_TO_AGBNO(rp.startino + j)
           state == m[agbno]
       IN IF InoChunkConflict(agno, rp.startino + j, state)
            THEN [m |-> m, conflict |-> TRUE]
            ELSE InoChunkWalk(agno,
                   set_bmap(m, agbno,
                            InoChunkBlockState(agno, rp.startino + j, state)),
                   rp, j + geom.inopblock)

\* scan_single_ino_chunk: one record of the allocation inode tree
scan_single_ino_chunk(agno, rp, suspect) ==
  LET ino == rp.startino
      off == XFS_AGINO_TO_OFFSET(ino)
      v == verify_single_ino_chunk_align(agno, rp, suspect)
      claims == off = 0 /\ v.suspect = 0
      w == IF claims THEN InoChunkWalk(agno, bmap[agno], rp, 0)
           ELSE [m |-> bmap[agno], conflict |-> FALSE]
      first_rec == find_inode_rec_range(agno, ino,
                                        ino + XFS_INODES_PER_CHUNK)
      s2 == IF first_rec # -1 THEN v.suspect + 1 ELSE v.suspect
      w2 == IF first_rec # -1 THEN {"overlaps existing rec"} ELSE {}
      imp == import_single_ino_chunk(agno, rp, s2)
      same == [m |-> bmap[agno], tree |-> ino_tree[agno],
               unc |-> uncertain[agno], imported |-> FALSE]
  IN IF v.skip
       THEN same @@ [suspect |-> v.suspect, warns |-> v.warns]
     ELSE IF w.conflict
       THEN [same EXCEPT !.m = w.m]
            @@ [suspect |-> v.suspect + 1,
                warns |-> v.warns \cup {"inode chunk claims used block"}]
     ELSE IF first_rec = ino
       THEN [same EXCEPT !.m = w.m]
            @@ [suspect |-> s2, warns |-> v.warns \cup w2]
     ELSE [m |-> w.m, tree |-> imp.tree, unc |-> imp.unc, imported |-> TRUE,
           suspect |-> imp.suspect,
           warns |-> v.warns \cup w2 \cup imp.warns
             \cup (IF imp.nfree # rp.freecount
                   THEN {"ir_freecount/free mismatch"} ELSE {})
             \cup (IF geom.sparse /\ imp.ninodes # rp.count
                   THEN {"invalid inode count"} ELSE {})]

\* a scan_single_finobt_chunk that takes a btree block for untracked
FinoBlockUntrackedOrTree(agno, agino, state) ==
  state \in {XR_E_UNKNOWN, XR_E_FS_MAP}
  \/ (state = XR_E_INUSE_FS /\ InPrealloc(agno, agino))

\* scan_single_finobt_chunk finds the block of a chunk untracked: the
\* allocation inode tree did not claim it and nothing else did
FinoBlockUntracked(agno, agino, state) ==
  state = XR_E_UNKNOWN \/ (state = XR_E_INUSE_FS /\ InPrealloc(agno, agino))

\* the loop of scan_single_finobt_chunk over the blocks of the chunk
RECURSIVE FinoChunkWalk(_, _, _, _, _)
FinoChunkWalk(agno, m, rp, j, suspect) ==
  IF j >= XFS_INODES_PER_CHUNK
    THEN [m |-> m, suspect |-> suspect, used |-> FALSE, warns |-> {}]
  ELSE LET agbno == XFS_AGINO_TO_AGBNO(rp.startino + j)
           state == m[agbno]
           next == j + geom.inopblock
       IN IF ino_issparse(rp, j)
            THEN IF state = XR_E_INO
                   THEN LET r == FinoChunkWalk(agno, m, rp, next, suspect + 1)
                        IN [r EXCEPT !.warns =
                              @ \cup {"sparse inode chunk claims inode block"}]
                   ELSE FinoChunkWalk(agno, m, rp, next, suspect)
          ELSE IF state = XR_E_INO
            THEN FinoChunkWalk(agno, m, rp, next, suspect)
          ELSE IF FinoBlockUntracked(agno, rp.startino + j, state)
            THEN LET r == FinoChunkWalk(agno, set_bmap(m, agbno, XR_E_INO),
                                        rp, next, suspect + 1)
                 IN [r EXCEPT !.warns =
                       @ \cup {"inode chunk claims untracked block"}]
          ELSE [m |-> m, suspect |-> suspect + 1, used |-> TRUE,
                warns |-> {"inode chunk claims used block"}]

\* the comparison of a free-inode-tree record with the in-core record
RECURSIVE FinoCompare(_, _, _, _)
FinoCompare(rp, rec, j, suspect) ==
  IF j >= XFS_INODES_PER_CHUNK
    THEN [suspect |-> suspect, nfree |-> 0, ninodes |-> 0]
    ELSE LET isfree == XFS_INOBT_IS_FREE_DISK(rp, j)
             issparse == ino_issparse(rp, j)
             s1 == IF suspect = 0 /\ isfree # (j \in rec.free)
                     THEN suspect + 1 ELSE suspect
             s2 == IF s1 = 0 /\ issparse # (j \in rec.sparse)
                     THEN s1 + 1 ELSE s1
             rest == FinoCompare(rp, rec, j + 1, s2)
         IN [rest EXCEPT
               !.ninodes = @ + (IF ~issparse THEN 1 ELSE 0),
               !.nfree = @ + (IF isfree /\ ~issparse THEN 1 ELSE 0)]

\* the warnings at the label check_freecount
FinoCountWarns(rp, nfree, ninodes) ==
  (IF nfree # rp.freecount THEN {"finobt ir_freecount/free mismatch"} ELSE {})
  \cup (IF nfree = 0 THEN {"finobt record with no free inodes"} ELSE {})
  \cup (IF geom.sparse /\ ninodes # rp.count
        THEN {"invalid inode count"} ELSE {})

\* scan_single_finobt_chunk: one record of the free-inode tree
scan_single_finobt_chunk(agno, rp, suspect) ==
  LET ino == rp.startino
      off == XFS_AGINO_TO_OFFSET(ino)
      v == verify_single_ino_chunk_align(agno, rp, suspect)
      w == IF off = 0 /\ v.suspect = 0
             THEN FinoChunkWalk(agno, bmap[agno], rp, 0, v.suspect)
             ELSE [m |-> bmap[agno], suspect |-> v.suspect, used |-> FALSE,
                   warns |-> {}]
      first_rec == find_inode_rec_range(agno, ino,
                                        ino + XFS_INODES_PER_CHUNK)
      cmp == FinoCompare(rp, InoRecAt(agno, ino), 0, w.suspect)
      imp == import_single_ino_chunk(agno, rp, w.suspect)
      same == [m |-> bmap[agno], tree |-> ino_tree[agno],
               unc |-> uncertain[agno], imported |-> FALSE]
      w0 == v.warns \cup w.warns
  IN IF v.skip
       THEN same @@ [suspect |-> v.suspect, warns |-> v.warns]
     ELSE IF w.used
       THEN [same EXCEPT !.m = w.m] @@ [suspect |-> w.suspect, warns |-> w0]
     ELSE IF first_rec # -1 /\ w.suspect # 0
       THEN [same EXCEPT !.m = w.m] @@ [suspect |-> w.suspect, warns |-> w0]
     ELSE IF first_rec # -1 /\ first_rec # ino
       THEN [same EXCEPT !.m = w.m]
            @@ [suspect |-> w.suspect + 1,
                warns |-> w0 \cup {"finobt rec does not match existing rec"}]
     ELSE IF first_rec # -1
       THEN [same EXCEPT !.m = w.m]
            @@ [suspect |-> cmp.suspect,
                warns |-> w0 \cup FinoCountWarns(rp, cmp.nfree, cmp.ninodes)]
     ELSE [m |-> w.m, tree |-> imp.tree, unc |-> imp.unc, imported |-> TRUE,
           suspect |-> imp.suspect,
           warns |-> w0 \cup {"undiscovered finobt record"} \cup imp.warns
                     \cup FinoCountWarns(rp, imp.nfree, imp.ninodes)]

\* validate_agi: the root of the allocation inode tree or, when the
\* filesystem has one, of the free-inode tree, of an AGI whose agi_level or
\* agi_free_level is one of Levels
ValidateAgiRootWith(a, Levels) ==
  /\ pc[a] \in {"ino", "fino"}
  /\ \E bno \in 0 .. AgBlocks, nlevels \in Levels :
       /\ op' = [act |-> "validate_agi", agno |-> a, arg |-> <<bno, nlevels>>]
       /\ IF pc[a] = "fino" /\ ~geom.finobt
            THEN /\ bno = 0 /\ nlevels = 1 /\ 1 \in Levels
                 /\ stack' = stack
                 /\ pc' = [pc EXCEPT ![a] = "agicheck"]
                 /\ warned' = {}
          ELSE IF bno # 0 /\ verify_agbno(a, bno)
            THEN /\ fuel[a][FuelKind(a)] > 0
                 /\ stack' = [stack EXCEPT ![a] =
                                <<CallFrame(bno, nlevels, 0, TRUE)>>]
                 /\ pc' = [pc EXCEPT ![a] =
                             IF pc[a] = "ino" THEN "inowalk" ELSE "finowalk"]
                 /\ warned' = {}
            ELSE /\ stack' = stack
                 /\ pc' = [pc EXCEPT ![a] =
                             IF pc[a] = "ino" THEN "fino" ELSE "agicheck"]
                 /\ warned' = {"bad agbno for root"}
  /\ UNCHANGED <<lbvars, poolvars, no_modify, geom, bnoseen, ino_tree, uncertain, bmap, agcnts, fuel>>

\* validate_agi on an AGI whose trees are at most MaxLevels deep
ValidateAgiRoot(a) == ValidateAgiRootWith(a, 1 .. MaxLevels)

\* a scan_inobt that marks its block as file data
InobtBlockStateInuse(state) ==
  IF state \in {XR_E_UNKNOWN, XR_E_FREE1, XR_E_FREE}
    THEN XR_E_INUSE ELSE XR_E_MULT

\* the state scan_inobt gives to the btree block it visits
InobtBlockState(state) ==
  IF state \in {XR_E_UNKNOWN, XR_E_FREE1, XR_E_FREE}
    THEN XR_E_FS_MAP ELSE XR_E_MULT

\* scan_sbtree reads one inode btree block and scan_inobt checks its header
\* and claims the block.  The arguments of the step are the block, the
\* number of magic and level errors, the suspect flag after the read,
\* whether the record count was out of bounds, and the record count the
\* visitor read, if it got that far.
ScanInobtBlock(a) ==
  /\ pc[a] \in {"inowalk", "finowalk"}
  /\ stack[a] # <<>>
  /\ Top(a).kind = "call"
  /\ \E berr \in {"ok", "EFSBADCRC", "EFSCORRUPTED"}, magicok \in BOOLEAN,
        bb_level \in 0 .. (MaxLevels - 1), bb_numrecs \in 0 .. (MxRecs + 1) :
       LET f == Top(a)
           level == f.level - 1
           suspect == IF berr # "ok" THEN 1 ELSE f.suspect
           w0 == IF berr # "ok" THEN {"btree block is suspect"} ELSE {}
           badmagic == ~magicok
           badlevel == bb_level # level
           hdr0 == (IF badmagic THEN 1 ELSE 0) + (IF badlevel THEN 1 ELSE 0)
           ret1 == badmagic /\ suspect # 0
           ret2 == ~ret1 /\ badlevel /\ suspect # 0
           claimed == ~ret1 /\ ~ret2
           state == bmap[a][f.bno]
           clip == ClipRecs(bb_numrecs, f.isroot)
           hdr == hdr0 + (IF clip.bad THEN 1 ELSE 0)
           leaf == level = 0
           ret3 == claimed /\ BailOut(leaf, hdr, suspect)
           returns == ret1 \/ ret2 \/ ret3
           suspect1 == SuspectPassed(leaf, hdr, suspect)
           w1 == (IF badmagic THEN {"bad magic"} ELSE {})
                 \cup (IF ~ret1 /\ badlevel THEN {"expected level"} ELSE {})
                 \cup (IF claimed /\ InobtBlockState(state) = XR_E_MULT
                       THEN {"inode btree block claimed"} ELSE {})
                 \cup (IF claimed /\ leaf /\ hdr # 0
                       THEN {"dubious inode btree block header"} ELSE {})
       IN /\ fuel[a][FuelKind(a)] > (IF returns THEN 0 ELSE IF leaf THEN clip.n ELSE 0)
          /\ fuel' = [fuel EXCEPT ![a][FuelKind(a)] = @ - 1]
          /\ bmap' = IF claimed
                       THEN [bmap EXCEPT ![a] =
                               set_bmap(@, f.bno, InobtBlockState(state))]
                       ELSE bmap
          /\ warned' = w0 \cup w1
          /\ stack' = [stack EXCEPT ![a] =
                         IF returns THEN Pop(a)
                         ELSE SetTop(a, [f EXCEPT
                                !.kind = IF leaf THEN "leaf" ELSE "node",
                                !.level = level, !.suspect = suspect1,
                                !.numrecs = clip.n])]
          /\ op' = [act |-> "scan_inobt", agno |-> a,
                    arg |-> <<f.bno, hdr0, suspect, claimed /\ clip.bad,
                              IF claimed THEN <<bb_numrecs>> ELSE <<>>>>]
  /\ UNCHANGED <<lbvars, poolvars, no_modify, geom, bnoseen, ino_tree, uncertain, pc, agcnts>>

\* the records an inode btree leaf of the image can hold
DiskInoRecs ==
  {rp \in InoRecs : rp.startino < AgBlocks * geom.inopblock}

\* one record of an inode btree leaf: the body of the for loop of scan_inobt
ScanInobtRec(a) ==
  /\ pc[a] \in {"inowalk", "finowalk"}
  /\ stack[a] # <<>>
  /\ Top(a).kind = "leaf"
  /\ Top(a).i < Top(a).numrecs
  /\ \E rp \in DiskInoRecs :
     \E r \in {IF pc[a] = "inowalk"
                THEN scan_single_ino_chunk(a, rp, Top(a).suspect)
                ELSE scan_single_finobt_chunk(a, rp, Top(a).suspect)} :
       LET f == Top(a)
           isino == pc[a] = "inowalk"
           icount == IF geom.sparse THEN rp.count ELSE XFS_INODES_PER_CHUNK
       IN /\ agcnts' = [agcnts EXCEPT ![a] =
               IF isino
                 THEN [@ EXCEPT !.agicount = @ + icount,
                                !.agifreecount = @ + rp.freecount,
                                !.ifreecount = @ + rp.freecount]
                 ELSE [@ EXCEPT !.fibtfreecount = @ + rp.freecount]]
          /\ bmap' = [bmap EXCEPT ![a] = r.m]
          /\ ino_tree' = [ino_tree EXCEPT ![a] = r.tree]
          /\ uncertain' = [uncertain EXCEPT ![a] = r.unc]
          /\ stack' = [stack EXCEPT ![a] =
                         SetTop(a, [f EXCEPT !.i = @ + 1,
                                             !.suspect = r.suspect])]
          /\ warned' = r.warns
          /\ op' = [act |-> IF isino THEN "ino_chunk" ELSE "finobt_chunk",
                    agno |-> a, arg |-> <<r.imported, rp.startino>>]
  /\ fuel' = [fuel EXCEPT ![a][FuelKind(a)] = @ - 1]
  /\ UNCHANGED <<lbvars, poolvars, no_modify, geom, bnoseen, pc>>

\* validate_agi: the counters of the AGI against the counts of the walk
ValidateAgiCounts(a) ==
  /\ pc[a] = "agicheck"
  /\ \E agi_count \in 0 .. (InoItems * XFS_INODES_PER_CHUNK),
        agi_freecount \in 0 .. (InoItems * XFS_INODES_PER_CHUNK),
        unlinked \in BOOLEAN :
       /\ warned' =
            (IF agi_count # agcnts[a].agicount THEN {"agi_count"} ELSE {})
            \cup (IF agi_freecount # agcnts[a].agifreecount
                  THEN {"agi_freecount"} ELSE {})
            \cup (IF geom.finobt /\ agi_freecount # agcnts[a].fibtfreecount
                  THEN {"agi_freecount finobt"} ELSE {})
            \cup (IF unlinked THEN {"agi unlinked bucket"} ELSE {})
  /\ op' = [act |-> "validate_agi_counts", agno |-> a, arg |-> <<>>]
  /\ pc' = [pc EXCEPT ![a] = "release"]
  /\ UNCHANGED <<lbvars, poolvars, no_modify, geom, bnoseen, ino_tree, uncertain, bmap, agcnts, stack, fuel>>

\* the end of scan_ag: a bad CRC makes a header buffer dirty when the image
\* may be modified; each dirty buffer is written back and the others are
\* released.  The argument of the step lists the buffers written back.
ScanAgEnd(a) ==
  /\ pc[a] = "release"
  /\ \E badcrc \in SUBSET HdrBufs :
       /\ Cardinality(badcrc) <= fuel[a].hdr
       /\ LET dirty == hdr_dirty[a] \cup (IF ~no_modify THEN badcrc ELSE {})
              written == IF ~no_modify THEN dirty ELSE {}
          IN op' = [act |-> "scan_ag_end", agno |-> a, arg |-> <<written>>]
  /\ hdr_dirty' = [hdr_dirty EXCEPT ![a] = {}]
  /\ pc' = [pc EXCEPT ![a] = "done"]
  /\ warned' = {}
  /\ UNCHANGED <<lbvars, worker, wq, dispatch, no_modify, geom, bnoseen,
                 ino_tree, uncertain, bmap, agcnts, stack, fuel>>

(***************************************************************************)
(* The extent-tree visitor scan_bmapbt, called through scan_lbtree by the   *)
(* inode processing of the later phases, after scan_ags has returned.      *)
(***************************************************************************)
\* a scan_bmapbt that takes a block of the freespace trees for its own
BmapbtBlockStateTakesFsMap(state) ==
  CASE state \in {XR_E_UNKNOWN, XR_E_FREE1, XR_E_FREE, XR_E_FS_MAP} -> XR_E_INUSE
    [] state \in {XR_E_INUSE, XR_E_MULT, XR_E_INUSE_FS} -> XR_E_MULT
    [] OTHER -> state

\* the state scan_bmapbt gives to the btree block it visits
BmapbtBlockState(state) ==
  CASE state \in {XR_E_UNKNOWN, XR_E_FREE1, XR_E_FREE} -> XR_E_INUSE
    [] state \in {XR_E_FS_MAP, XR_E_INUSE} -> XR_E_MULT
    [] state \in {XR_E_MULT, XR_E_INUSE_FS} -> XR_E_MULT
    [] OTHER -> state

\* what the walk of an extent tree leaves alone
scanvars ==
  <<no_modify, geom, bnoseen, ino_tree, uncertain, pc, agcnts, stack>>

\* a frame of the walk: the loop of process_btinode over the pointers of the
\* root in the inode fork ("fork"), or a scan_lbtree call: made and not run
\* ("call"), its visitor holding the lock of the AG ("locked"), before the
\* records ("body"), in the loop over the pointers ("node"), or returned to
\* scan_lbtree with err and dirty ("ret")
LFrame(kind, bno, level, isroot, check_dups, numrecs) ==
  [kind |-> kind, bno |-> bno, level |-> level, isroot |-> isroot,
   check_dups |-> check_dups, badcrc |-> FALSE, dirty |-> FALSE, err |-> 0,
   i |-> 0, numrecs |-> numrecs, pkey |-> <<>>]

LTop == lstack[Len(lstack)]
LSetTop(f) == [lstack EXCEPT ![Len(lstack)] = f]

\* the block numbers a pointer of the image may hold: the blocks of the
\* AGs already scanned, and NULLFSBLOCK
BmPtrs ==
  {XFS_AGB_TO_FSB(x, b) : x \in {y \in AGs : pc[y] = "done"}, b \in Blocks}
  \cup {NULLFSBLOCK}

\* process_btinode on an inode of AG a: the walk of one fork starts with a
\* fresh cursor; level and numrecs are those of the root in the inode, and
\* the blocks the root points to are walked with isroot set
ProcessBtinode(a) ==
  /\ lstack = <<>>
  /\ \A x \in AGs : pc[x] \in {"idle", "done"}
  /\ pc[a] = "done"
  /\ fuel[a].bm > 1
  /\ fuel' = [fuel EXCEPT ![a].bm = @ - 1]
  /\ \E level \in 1 .. MaxLevels, numrecs \in 1 .. MxRecs,
        check_dups \in BOOLEAN :
       /\ lstack' = <<LFrame("fork", NULLFSBLOCK, level, TRUE, check_dups,
                             numrecs)>>
       /\ op' = [act |-> "process_btinode", agno |-> a,
                 arg |-> <<level, numrecs, check_dups>>]
  /\ bm_cursor' = InitCursor
  /\ warned' = {}
  /\ UNCHANGED <<scanvars, bmap, ag_locks, poolvars>>

\* one pointer of the root or of an interior block: a pointer outside the
\* filesystem ends the walk of the block, else scan_lbtree is called on it
ScanLbtreePtr ==
  /\ lstack # <<>>
  /\ LTop.kind \in {"fork", "node"}
  /\ LTop.err = 0
  /\ LTop.i < LTop.numrecs
  /\ \E ptr \in BmPtrs :
       LET f == LTop
       IN /\ IF ~verify_dfsbno(ptr)
               THEN /\ lstack' = LSetTop([f EXCEPT !.err = 1,
                                 !.kind = IF f.kind = "node" THEN "ret"
                                          ELSE "fork"])
                    /\ warned' = {"bad bmap btree ptr"}
                    /\ fuel' = fuel
               ELSE /\ fuel[XFS_FSB_TO_AGNO(ptr)].bm > 0
                    /\ fuel' = [fuel EXCEPT ![XFS_FSB_TO_AGNO(ptr)].bm = @ - 1]
                    /\ lstack' = Append(lstack,
                         LFrame("call", ptr, f.level,
                                IF f.kind = "fork" THEN f.isroot ELSE FALSE,
                                f.check_dups, 0))
                    /\ warned' = {}
          /\ op' = [act |-> "bmbt_ptr", agno |-> 0, arg |-> <<ptr>>]
  /\ UNCHANGED <<scanvars, bmap, bm_cursor, ag_locks, poolvars>>

\* a scan_bmapbt that checks the siblings and claims the block in both modes
ReachesClaimAlways(hdrok, check_dups, badsib) == hdrok /\ ~badsib

\* scan_bmapbt reaches the update of the cursor and the claim of the block:
\* the header is good, check_dups is 0 and the sibling pointers agree
ReachesClaim(hdrok, check_dups, badsib) == hdrok /\ ~check_dups /\ ~badsib

\* a pthread_mutex_lock that does not take the lock
pthread_mutex_lock_none(locks, a) == locks

\* a pthread_mutex_unlock that leaves the lock held
pthread_mutex_unlock_none(locks, a) == locks

\* pthread_mutex_lock(&ag_locks[a].lock), pthread_mutex_unlock
pthread_mutex_lock(locks, a) == [locks EXCEPT ![a] = TRUE]
pthread_mutex_unlock(locks, a) == [locks EXCEPT ![a] = FALSE]

\* a scan_lbtree that writes a dirty or damaged block back in every mode
WritesBackAlways(dirty, badcrc) == dirty \/ badcrc

\* scan_lbtree writes the buffer back, else it releases it
WritesBack(dirty, badcrc) == (dirty \/ badcrc) /\ ~no_modify

\* a scan_bmapbt that accepts every left sibling pointer
BadBackSibNever(cur, leftsib) == FALSE

\* the block bno is not the one the right sibling pointer of the last block
\* of the level, kept in the cursor cur, names
BadFwdSib(cur, bno) == cur.fsbno # NULLFSBLOCK /\ bno # cur.right_fsbno

\* the left sibling pointer of the block is not the last block of the
\* level, or is not null in the first block of the level
BadBackSib(cur, leftsib) ==
  IF cur.fsbno # NULLFSBLOCK THEN leftsib # cur.fsbno
  ELSE leftsib # NULLFSBLOCK

\* scan_lbtree cannot read the block: libxfs_readbuf gives no buffer and
\* do_error ends the process, so that the return(1) after it is not reached
ScanLbtreeReadErr(a) ==
  /\ lstack # <<>>
  /\ LTop.kind = "call"
  /\ XFS_FSB_TO_AGNO(LTop.bno) = a
  /\ pc' = [x \in AGs |-> "exited"]
  /\ lstack' = <<>>
  /\ warned' = {"can't read btree block"}
  /\ op' = [act |-> "lbtree_readerr", agno |-> a,
            arg |-> <<XFS_FSB_TO_AGBNO(LTop.bno)>>]
  /\ UNCHANGED <<no_modify, geom, bnoseen, ino_tree, uncertain, agcnts, stack,
                 bmap, bm_cursor, fuel, ag_locks, poolvars>>

\* scan_lbtree reads the block and calls scan_bmapbt: the header checks,
\* then without check_dups the sibling checks against the cursor, the update
\* of the cursor and the lock of the AG of the block; with check_dups the
\* search of the duplicate extents
ScanBmapbtBlock(a) ==
  /\ lstack # <<>>
  /\ LTop.kind = "call"
  /\ XFS_FSB_TO_AGNO(LTop.bno) = a
  /\ \E badcrc \in BOOLEAN, hdrok \in BOOLEAN, leftsib \in BmPtrs,
        rightsib \in BmPtrs, dup \in BOOLEAN :
       LET f == LTop
           level == f.level - 1
           cur == bm_cursor[level]
           badfwd == BadFwdSib(cur, f.bno)
           badback == BadBackSib(cur, leftsib)
           f1 == [f EXCEPT !.level = level, !.badcrc = badcrc]
           crcw == IF badcrc THEN {"btree block is suspect"} ELSE {}
           locks == ReachesClaim(hdrok, f.check_dups, badfwd \/ badback)
       IN \* the fields the visitor does not read are left out of the input
          /\ (~hdrok \/ f.check_dups) =>
               leftsib = NULLFSBLOCK /\ rightsib = NULLFSBLOCK
          /\ (~hdrok \/ ~f.check_dups) => ~dup
          /\ locks => ~ag_locks[a]
          /\ lstack' = LSetTop(
               IF ~hdrok \/ (~f.check_dups /\ (badfwd \/ badback))
                    \/ (f.check_dups /\ dup)
                 THEN [f1 EXCEPT !.kind = "ret", !.err = 1]
               ELSE IF ~f.check_dups THEN [f1 EXCEPT !.kind = "locked"]
               ELSE [f1 EXCEPT !.kind = "body"])
          /\ bm_cursor' =
               IF locks
                 THEN [bm_cursor EXCEPT ![level].fsbno = f.bno,
                                        ![level].left_fsbno = leftsib,
                                        ![level].right_fsbno = rightsib]
                 ELSE bm_cursor
          /\ ag_locks' = IF locks THEN pthread_mutex_lock(ag_locks, a)
                         ELSE ag_locks
          /\ warned' = crcw \cup
               (IF ~hdrok THEN {"bad bmbt block header"}
                ELSE IF f.check_dups THEN {}
                ELSE IF badfwd THEN {"bad fwd sibling pointer"}
                ELSE IF badback THEN {"bad back sibling pointer"}
                ELSE {})
          /\ op' = [act |-> "scan_bmapbt", agno |-> a,
                    arg |-> <<XFS_FSB_TO_AGBNO(f.bno), f.check_dups, hdrok,
                              leftsib>>]
  /\ UNCHANGED <<scanvars, bmap, fuel, poolvars>>

\* scan_bmapbt with the lock of the AG held: the block is claimed in the
\* map and the lock is dropped
ScanBmapbtClaim(a) ==
  /\ lstack # <<>>
  /\ LTop.kind = "locked"
  /\ XFS_FSB_TO_AGNO(LTop.bno) = a
  /\ LET agbno == XFS_FSB_TO_AGBNO(LTop.bno)
         state == bmap[a][agbno]
     IN /\ bmap' = [bmap EXCEPT ![a] =
                      set_bmap(@, agbno, BmapbtBlockState(state))]
        /\ warned' =
             IF state \in {XR_E_UNKNOWN, XR_E_FREE1, XR_E_FREE} THEN {}
             ELSE IF BmapbtBlockState(state) = XR_E_MULT
               THEN {"bmap block claimed"}
             ELSE {"bad state"}
        /\ op' = [act |-> "bmapbt_claim", agno |-> a, arg |-> <<agbno>>]
  /\ ag_locks' = pthread_mutex_unlock(ag_locks, a)
  /\ lstack' = LSetTop([LTop EXCEPT !.kind = "body"])
  /\ UNCHANGED <<scanvars, bm_cursor, fuel, poolvars>>

\* scan_bmapbt from (*tot)++ on: the count of records is checked; a leaf
\* has its records processed (process_bmbt_reclist gives err and the first
\* and last keys, scan_bmbt_reclist gives err), and without check_dups the
\* key order is checked against the cursor and the cursor takes the keys;
\* an interior block enters the loop over its pointers with the keys pkey.
\* A root leaf without records leaves first_key and last_key unset.
ScanBmapbtBody ==
  /\ lstack # <<>>
  /\ LTop.kind = "body"
  /\ \E numrecs \in 0 .. (MxRecs + 1), recerr \in BOOLEAN,
        first_key \in Keys, last_key \in Keys :
       LET f == LTop
           leaf == f.level = 0
           badrecs == numrecs > MxRecs \/ (~f.isroot /\ numrecs < MnRecs)
           cur == bm_cursor[f.level]
           unordered == first_key <= cur.last_key
                        /\ cur.last_key # NULLFILEOFF
           readskeys == leaf /\ ~badrecs /\ ~f.check_dups /\ ~recerr
           ret(e) == [f EXCEPT !.kind = "ret", !.err = e]
       IN /\ ~readskeys => first_key = 0 /\ last_key = 0
          /\ (readskeys /\ numrecs > 0) =>
               first_key <= last_key /\ last_key <= MaxKey
          /\ (~leaf \/ badrecs) => ~recerr
          /\ \E pkey \in [1 .. (IF leaf \/ badrecs THEN 0 ELSE numrecs)
                            -> 0 .. MaxKey] :
               lstack' = LSetTop(
                 IF badrecs THEN ret(1)
                 ELSE IF ~leaf
                   THEN [f EXCEPT !.kind = "node", !.numrecs = numrecs,
                                  !.i = 0, !.pkey = pkey]
                 ELSE IF recerr \/ (~f.check_dups /\ unordered) THEN ret(1)
                 ELSE ret(0))
          /\ bm_cursor' =
               IF readskeys /\ ~unordered
                 THEN [bm_cursor EXCEPT ![f.level].first_key = first_key,
                                        ![f.level].last_key = last_key]
                 ELSE bm_cursor
          /\ warned' =
               IF badrecs THEN {"bad # of bmap records"}
               ELSE IF readskeys /\ unordered THEN {"out-of-order bmap key"}
               ELSE {}
          /\ op' = [act |-> "bmapbt_body", agno |-> XFS_FSB_TO_AGNO(f.bno),
                    arg |-> <<numrecs>>]
  /\ UNCHANGED <<scanvars, bmap, fuel, ag_locks, poolvars>>

\* scan_bmapbt after the loop over the pointers: the last block of a level
\* must have a last child without right sibling; without check_dups the
\* cursor takes the first and the last key of the block.  A block without
\* records has no such keys and the values read are arbitrary.
ScanBmapbtNodeEnd ==
  /\ lstack # <<>>
  /\ LTop.kind = "node"
  /\ LTop.i = LTop.numrecs
  /\ \E k0 \in Keys, k1 \in Keys :
       LET f == LTop
           badlast == /\ ~f.check_dups
                      /\ bm_cursor[f.level].right_fsbno = NULLFSBLOCK
                      /\ bm_cursor[f.level - 1].right_fsbno # NULLFSBLOCK
           takes == ~f.check_dups /\ ~badlast
       IN /\ (f.numrecs > 0 \/ ~takes) => k0 = 0 /\ k1 = 0
          /\ lstack' = LSetTop([f EXCEPT !.kind = "ret",
                                         !.err = IF badlast THEN 1 ELSE 0])
          /\ bm_cursor' =
               IF takes
                 THEN [bm_cursor EXCEPT
                         ![f.level].first_key =
                            IF f.numrecs > 0 THEN f.pkey[1] ELSE k0,
                         ![f.level].last_key =
                            IF f.numrecs > 0 THEN f.pkey[f.numrecs] ELSE k1]
                 ELSE bm_cursor
          /\ warned' = IF badlast THEN {"bad fwd sibling pointer"} ELSE {}
          /\ op' = [act |-> "bmapbt_node_end",
                    agno |-> XFS_FSB_TO_AGNO(f.bno), arg |-> <<>>]
  /\ UNCHANGED <<scanvars, bmap, fuel, ag_locks, poolvars>>

\* a scan_bmapbt that corrects the key of the parent in every mode
KeyFixAlways(mismatch) == mismatch

\* the key of the parent that differs from the first key of the child is
\* corrected unless nothing may be modified
KeyFix(mismatch) == mismatch /\ ~no_modify

\* the visitor has returned to scan_lbtree: the buffer is written back when
\* it is dirty or has a bad CRC and the image may be modified, else it is
\* released; back in the caller a failure ends the walk of the parent, and
\* without check_dups the key of the parent that differs from the first key
\* of the child is corrected, or only reported when nothing may be modified.
\* The argument of the step tells how the buffer was released and whether a
\* key was rewritten.
ScanLbtreeReturn ==
  /\ Len(lstack) >= 2
  /\ LTop.kind = "ret"
  /\ LET f == LTop
         p == lstack[Len(lstack) - 1]
         written == WritesBack(f.dirty, f.badcrc)
         mismatch == /\ p.kind = "node" /\ f.err = 0 /\ ~p.check_dups
                     /\ p.pkey[p.i + 1] # bm_cursor[p.level - 1].first_key
         fix == KeyFix(mismatch)
         p1 == IF f.err # 0
                 THEN [p EXCEPT !.err = 1,
                                !.kind = IF p.kind = "node" THEN "ret"
                                         ELSE "fork"]
               ELSE IF fix
                 THEN [p EXCEPT !.i = @ + 1, !.dirty = TRUE,
                                !.pkey[p.i + 1] =
                                   bm_cursor[p.level - 1].first_key]
               ELSE [p EXCEPT !.i = @ + 1]
     IN /\ lstack' = Append(SubSeq(lstack, 1, Len(lstack) - 2), p1)
        /\ warned' = IF fix THEN {"correcting bt key"}
                     ELSE IF mismatch THEN {"bad btree key"} ELSE {}
        /\ op' = [act |-> "scan_lbtree", agno |-> XFS_FSB_TO_AGNO(f.bno),
                  arg |-> <<IF written THEN "writebuf" ELSE "putbuf", fix>>]
  /\ UNCHANGED <<scanvars, bmap, bm_cursor, fuel, ag_locks, poolvars>>

\* process_btinode has walked every pointer of the root, or a walk failed;
\* after the last pointer, without check_dups, the last leaf seen must have
\* no right sibling.  The argument of the step is the result of the walk.
ForkEnd ==
  /\ lstack # <<>>
  /\ LTop.kind = "fork"
  /\ LTop.err # 0 \/ LTop.i = LTop.numrecs
  /\ lstack' = <<>>
  /\ LET badlast == /\ LTop.err = 0 /\ ~LTop.check_dups
                    /\ bm_cursor[0].right_fsbno # NULLFSBLOCK
     IN /\ warned' = IF badlast THEN {"bad fwd sibling pointer"} ELSE {}
        /\ op' = [act |-> "fork_end", agno |-> 0,
                  arg |-> <<IF badlast THEN 1 ELSE LTop.err,
                            LTop.check_dups>>]
  /\ UNCHANGED <<scanvars, bmap, bm_cursor, fuel, ag_locks, poolvars>>

\* the steps of the walk of an extent tree
BmapStep ==
  \/ \E a \in AGs : ProcessBtinode(a) \/ ScanLbtreeReadErr(a)
                    \/ ScanBmapbtBlock(a) \/ ScanBmapbtClaim(a)
  \/ ScanLbtreePtr
  \/ ScanBmapbtBody
  \/ ScanBmapbtNodeEnd
  \/ ScanLbtreeReturn
  \/ ForkEnd

\* the steps of scan_ag every image takes
AgStep(a) ==
  \/ ScanAgStart(a)
  \/ ScanFreelist(a)
  \/ ValidateAgfRoot(a)
  \/ ValidateAgfCounts(a)
  \/ ValidateAgiRoot(a)
  \/ ValidateAgiCounts(a)
  \/ ScanAgEnd(a)
  \/ ScanSbtreePtr(a)
  \/ SbtreeReturn(a)
  \/ WalkDone(a)

AllocStep(a) ==
  \/ ScanAllocbtBlock(a)
  \/ ScanAllocbtRec(a)

InoStep(a) ==
  \/ ScanInobtBlock(a)
  \/ ScanInobtRec(a)

Next ==
  \/ \E a \in AGs : AgStep(a) \/ AllocStep(a) \/ InoStep(a)
  \/ BmapStep

Spec == Init /\ [][Next]_vars

\* the freespace side of scan_ag: the AGFL and the two freespace trees of an
\* image whose AGI holds no usable root
InitFree ==
  InitWith({1}, {FALSE}, {Geom(1, 0, TRUE, FALSE)}, {1},
           {Budget(FsItems + 1, 0, 0, 0)})
NextFree == \E a \in AGs : AgStep(a) \/ AllocStep(a)
SpecFree == InitFree /\ [][NextFree]_vars

\* the freespace trees or the allocation inode tree of an image whose AGF
\* and AGI declare between no level and one level more than MaxLevels, while
\* the blocks hold a bb_level below MaxLevels as in every image of the model
DeepLevels == MaxLevels + 1
InitDeep ==
  InitWith({1}, {FALSE}, {Geom(1, 0, TRUE, FALSE)}, {1},
           {Budget(FsItems + 1, 0, 0, 0), Budget(0, InoItems + 2, 0, 0)})
NextDeep ==
  \E a \in AGs :
    \/ ScanAgStart(a)
    \/ ScanFreelist(a)
    \/ ValidateAgfRootWith(a, 0 .. DeepLevels)
    \/ ValidateAgfCounts(a)
    \/ ValidateAgiRootWith(a, 0 .. DeepLevels)
    \/ ValidateAgiCounts(a)
    \/ ScanAgEnd(a)
    \/ ScanSbtreePtr(a)
    \/ SbtreeReturn(a)
    \/ WalkDone(a)
    \/ ScanAllocbtBlock(a)
    \/ ScanAllocbtRec(a)
    \/ ScanInobtBlock(a)
    \/ ScanInobtRec(a)
SpecDeep == InitDeep /\ [][NextDeep]_vars

\* the allocation inode tree of an image without freespace trees
InitIno ==
  InitWith(AGs, {FALSE},
           {Geom(1, 0, TRUE, FALSE),
            Geom(2 * XFS_INODES_PER_CHUNK, 0, TRUE, FALSE)},
           {2}, {Budget(0, InoItems, 0, 0)})
NextIno == \E a \in AGs : AgStep(a) \/ InoStep(a)
SpecIno == InitIno /\ [][NextIno]_vars

\* the allocation inode tree of an image whose root leaf holds two records
InitOverlap ==
  InitWith({0}, {FALSE}, {Geom(1, 0, TRUE, FALSE)}, {2},
           {Budget(0, InoItems + 1, 0, 0)})
SpecOverlap == InitOverlap /\ [][NextIno]_vars

\* the two inode trees of an image without freespace trees
InitFino ==
  InitWith({0}, {FALSE}, {Geom(1, 0, TRUE, TRUE)}, {2},
           {Budget(0, InoItems, InoItems, 0)})
SpecFino == InitFino /\ [][NextIno]_vars

(***************************************************************************)
(* scan_ags: the dispatcher, the work queue and the reduction.             *)
(***************************************************************************)
\* the loop of scan_ags queues the task of the next AG; after the last it
\* calls destroy_work_queue and waits
QueueWork ==
  /\ dispatch.stage = "queue"
  /\ pc[dispatch.i] = "idle"
  /\ pc' = [pc EXCEPT ![dispatch.i] = "queued"]
  /\ wq' = Append(wq, Task(dispatch.i))
  /\ dispatch' = [dispatch EXCEPT
                    !.i = @ + 1,
                    !.stage = IF dispatch.i + 1 < NumAGs THEN "queue"
                              ELSE "wait"]
  /\ warned' = {}
  /\ op' = [act |-> "queue_work", agno |-> dispatch.i, arg |-> <<>>]
  /\ UNCHANGED <<lbvars, hdr_dirty, worker, no_modify, geom, bnoseen,
                 ino_tree, uncertain, bmap, agcnts, stack, fuel>>

\* destroy_work_queue has returned, every task has finished: the slots are
\* added up and the totals compared with the counters of the superblock
ScanAgsTally ==
  /\ dispatch.stage = "wait"
  /\ wq = <<>>
  /\ \A a \in AGs : pc[a] = "done"
  /\ \E sb_icount \in Words, sb_ifree \in Words, sb_fdblocks \in Words :
       LET fdblocks == SumOver([a \in AGs |-> agcnts[a].fdblocks], AGs)
           agicount == SumOver([a \in AGs |-> agcnts[a].agicount], AGs)
           ifreecount == SumOver([a \in AGs |-> agcnts[a].ifreecount], AGs)
       IN /\ dispatch' = [dispatch EXCEPT !.stage = "done",
                                          !.fdblocks = fdblocks,
                                          !.agicount = agicount,
                                          !.ifreecount = ifreecount]
          /\ warned' =
               (IF sb_icount # agicount THEN {"sb_icount"} ELSE {})
               \cup (IF sb_ifree # ifreecount THEN {"sb_ifree"} ELSE {})
               \cup (IF sb_fdblocks # fdblocks THEN {"sb_fdblocks"} ELSE {})
  /\ op' = [act |-> "scan_ags", agno |-> 0, arg |-> <<>>]
  /\ UNCHANGED <<lbvars, hdr_dirty, worker, wq, no_modify, geom, bnoseen,
                 ino_tree, uncertain, pc, bmap, agcnts, stack, fuel>>

\* scan_ags has zeroed agcnts and created the work queue; no task is queued.
\* AG 0 of the image holds one freespace item, the other AGs none.
InitPool ==
  /\ no_modify \in BOOLEAN
  /\ geom = Geom(1, 0, TRUE, TRUE)
  /\ bnoseen = [a \in AGs |-> {}]
  /\ ino_tree = [a \in AGs |-> {}]
  /\ uncertain = [a \in AGs |-> {}]
  /\ pc = [a \in AGs |-> "idle"]
  /\ bmap = [a \in AGs |-> InitSlice(1)]
  /\ agcnts = [a \in AGs |-> ZeroCnts]
  /\ stack = [a \in AGs |-> <<>>]
  /\ fuel = [a \in AGs |-> IF a = 0 THEN Budget(1, 0, 0, 0)
                            ELSE Budget(0, 0, 0, 0)]
  /\ warned = {}
  /\ op = NoOp
  /\ bm_cursor = InitCursor
  /\ lstack = <<>>
  /\ ag_locks = [a \in AGs |-> FALSE]
  /\ hdr_dirty = [a \in AGs |-> {}]
  /\ worker = [a \in AGs |-> 0]
  /\ wq = <<>>
  /\ dispatch = DispatchAt(0)

\* the steps of one task on such an image
TaskStep(a) == AgStep(a) \/ ScanAllocbtBlock(a)

NextPool == QueueWork \/ ScanAgsTally \/ \E a \in AGs : TaskStep(a)
SpecPool == InitPool /\ [][NextPool]_vars

\* the threads of the queue and the dispatcher are scheduled fairly
SpecPoolFair ==
  /\ SpecPool
  /\ WF_vars(QueueWork)
  /\ WF_vars(ScanAgsTally)
  /\ \A a \in AGs : WF_vars(TaskStep(a))

(***************************************************************************)
(* The walk of extent trees after the scan of an AG whose AGFL listed      *)
(* block 2 and whose by-offset root was block 3.                           *)
(***************************************************************************)
ScannedSlice ==
  [b \in Blocks |-> IF b = 0 THEN XR_E_INUSE_FS
                    ELSE IF b = 2 THEN XR_E_FREE
                    ELSE IF b = 3 THEN XR_E_FS_MAP
                    ELSE XR_E_UNKNOWN]

InitBmap ==
  /\ no_modify \in BOOLEAN
  /\ geom = Geom(1, 0, TRUE, TRUE)
  /\ bnoseen = [a \in AGs |-> {}]
  /\ ino_tree = [a \in AGs |-> {}]
  /\ uncertain = [a \in AGs |-> {}]
  /\ pc = [a \in AGs |-> IF a = 0 THEN "done" ELSE "idle"]
  /\ bmap = [a \in AGs |-> IF a = 0 THEN ScannedSlice ELSE InitSlice(1)]
  /\ agcnts = [a \in AGs |-> IF a = 0 THEN [ZeroCnts EXCEPT !.fdblocks = 1]
                              ELSE ZeroCnts]
  /\ stack = [a \in AGs |-> <<>>]
  /\ fuel = [a \in AGs |-> Budget(0, 0, 0, BmItems + 1)]
  /\ warned = {}
  /\ op = NoOp
  /\ bm_cursor = InitCursor
  /\ lstack = <<>>
  /\ ag_locks = [a \in AGs |-> FALSE]
  /\ hdr_dirty = [a \in AGs |-> {}]
  /\ worker = [a \in AGs |-> IF a = 0 THEN 1 ELSE 0]
  /\ wq = <<>>
  /\ dispatch = DispatchAt(NumAGs)

SpecBmap == InitBmap /\ [][BmapStep]_vars

\* the walk of the extent tree of an inode of AG 0 whose blocks lie in every
\* AG, after a scan by one worker that left every AG with the same map
InitLocks ==
  /\ no_modify = FALSE
  /\ geom = Geom(1, 0, TRUE, TRUE)
  /\ bnoseen = [a \in AGs |-> {}]
  /\ ino_tree = [a \in AGs |-> {}]
  /\ uncertain = [a \in AGs |-> {}]
  /\ pc = [a \in AGs |-> "done"]
  /\ bmap = [a \in AGs |-> ScannedSlice]
  /\ agcnts = [a \in AGs |-> [ZeroCnts EXCEPT !.fdblocks = 1]]
  /\ stack = [a \in AGs |-> <<>>]
  /\ fuel = [a \in AGs |-> Budget(0, 0, 0, IF a = 0 THEN BmItems ELSE 1)]
  /\ warned = {}
  /\ op = NoOp
  /\ bm_cursor = InitCursor
  /\ lstack = <<>>
  /\ ag_locks = [a \in AGs |-> FALSE]
  /\ hdr_dirty = [a \in AGs |-> {}]
  /\ worker = [a \in AGs |-> 1]
  /\ wq = <<>>
  /\ dispatch = DispatchAt(NumAGs)

SpecLocks == InitLocks /\ [][BmapStep]_vars

(***************************************************************************)
(* The buffers: the scan of one AG with damaged headers and without trees, *)
(* then the walk of extent trees.                                          *)
(***************************************************************************)
InitBufs ==
  InitWith({0}, BOOLEAN, {Geom(1, 0, TRUE, TRUE)}, {1},
           {DamagedBudget(Budget(0, 0, 0, BmItems + 1), 2)})

\* the steps of scan_ag outside the walks of the trees
HdrStep(a) ==
  \/ ScanAgStart(a)
  \/ ScanFreelist(a)
  \/ ValidateAgfRoot(a)
  \/ ValidateAgfCounts(a)
  \/ ValidateAgiRoot(a)
  \/ ValidateAgiCounts(a)
  \/ ScanAgEnd(a)

NextBufs == (\E a \in AGs : HdrStep(a)) \/ BmapStep
SpecBufs == InitBufs /\ [][NextBufs]_vars

(***************************************************************************)
(* The block-state map across the whole scan.                              *)
(***************************************************************************)
\* C1: a block whose state is MULT keeps the state MULT in every step of
\* every visitor: the AGFL walk, the freespace visitor, the inode-tree
\* visitor, the chunk scans and the extent-tree visitor.
C1_MultAbsorbing ==
  [][\A a \in AGs, b \in Blocks :
       bmap[a][b] = XR_E_MULT => bmap'[a][b] = XR_E_MULT]_vars

\* a freespace record has just met a block that was already MULT, and the
\* block is still MULT
C1_Witness ==
  \E a \in AGs, x \in Blocks :
    /\ op.act = "allocbt_rec" /\ op.agno = a
    /\ "multiply claimed" \in warned
    /\ op.arg[1] <= x /\ x < op.arg[1] + op.arg[2]
    /\ bmap[a][x] = XR_E_MULT

(***************************************************************************)
(* The freespace leaf records.                                             *)
(***************************************************************************)
\* the record (b, len) lies in the AG: its start is a block of the AG other
\* than block 0 and its last block is a block of the AG
InRangeRec(b, len) == b # 0 /\ b < AgBlocks /\ len # 0 /\ b + len <= AgBlocks

\* C2: the freespace visitor takes every block of a valid leaf record from
\* UNKNOWN to FREE1, from FREE1 to FREE when the tree is the by-count tree,
\* and in every other case warns and takes the block to MULT.
C2_RecordRule ==
  [][\A a \in AGs :
       (op'.act = "allocbt_rec" /\ op'.agno = a
        /\ InRangeRec(op'.arg[1], op'.arg[2]))
       => \A x \in Blocks :
            (op'.arg[1] <= x /\ x < op'.arg[1] + op'.arg[2])
            => IF bmap[a][x] = XR_E_UNKNOWN
                 THEN bmap'[a][x] = XR_E_FREE1
               ELSE IF bmap[a][x] = XR_E_FREE1 /\ pc[a] = "cntwalk"
                 THEN bmap'[a][x] = XR_E_FREE
               ELSE /\ bmap'[a][x] = XR_E_MULT
                    /\ "multiply claimed" \in warned']_vars

\* C3: a freespace record takes a block to FREE only if a by-offset record
\* covered the block before.
C3_FreeNeedsByOffset ==
  [][\A a \in AGs, x \in Blocks :
       (op'.act = "allocbt_rec" /\ op'.agno = a
        /\ bmap[a][x] # XR_E_FREE /\ bmap'[a][x] = XR_E_FREE)
       => x \in bnoseen[a]]_vars

\* C4: when the scan of an AG is complete, every block an in-range by-offset
\* record covers is FREE or MULT.
C4_ByOffsetBlocksSettled ==
  \A a \in AGs :
    pc[a] = "done"
    => \A x \in bnoseen[a] : bmap[a][x] \in {XR_E_FREE, XR_E_MULT}

FreeBlocks(a) == {b \in Blocks : bmap[a][b] \in {XR_E_FREE, XR_E_FREE1}}

\* C6: after the scan, the number of blocks that are FREE or FREE1, over
\* all AGs, is the fdblocks total the scan computed.
C6_CounterLaw ==
  (\A a \in AGs : pc[a] \in {"idle", "done"})
  => SumOver([a \in AGs |-> Cardinality(FreeBlocks(a))], AGs)
       = SumOver([a \in AGs |-> agcnts[a].fdblocks], AGs)

(***************************************************************************)
(* The chunk scans.  A claim about one record is stated over every record  *)
(* the leaf at hand can hold, in every state where the walk is about to    *)
(* read a record.                                                          *)
(***************************************************************************)
\* the walk of the tree of stage p is about to read a record of a leaf
LeafReady(a, p) ==
  /\ pc[a] = p
  /\ stack[a] # <<>>
  /\ Top(a).kind = "leaf"
  /\ Top(a).i < Top(a).numrecs

\* the offsets of the inodes the block loops of the chunk scans examine
BlockOffsets == {j \in ChunkOffsets : j % geom.inopblock = 0}

\* C7: when the allocation-tree chunk scan imports a chunk, as authoritative
\* or as uncertain, every block that holds a non-sparse inode of the chunk is
\* INO in the map.
C7_ImportedBlocksIno ==
  \A a \in AGs :
    LeafReady(a, "inowalk")
    => \A rp \in DiskInoRecs :
       \A r \in {scan_single_ino_chunk(a, rp, Top(a).suspect)} :
         r.imported
         => \A j \in ChunkOffsets :
              ~ino_issparse(rp, j)
              => r.m[XFS_AGINO_TO_AGBNO(rp.startino + j)] = XR_E_INO

\* C7 as the scan keeps it: when the allocation-tree chunk scan imports a
\* chunk as authoritative and the chunk starts a block, every block of the
\* chunk whose first inode is not sparse is INO in the map.
C7_AuthoritativeBlocksIno ==
  \A a \in AGs :
    LeafReady(a, "inowalk")
    => \A rp \in DiskInoRecs :
       \A r \in {scan_single_ino_chunk(a, rp, Top(a).suspect)} :
         (r.imported /\ r.tree # ino_tree[a]
          /\ XFS_AGINO_TO_OFFSET(rp.startino) = 0)
         => \A j \in BlockOffsets :
              ~ino_issparse(rp, j)
              => r.m[XFS_AGINO_TO_AGBNO(rp.startino + j)] = XR_E_INO

\* the allocation-tree chunk scan has just imported, as authoritative, a
\* chunk that starts a block and whose first inode is not sparse, and the
\* block is INO
C7_Witness ==
  \E a \in AGs :
    /\ op.act = "ino_chunk" /\ op.agno = a /\ op.arg[1]
    /\ XFS_AGINO_TO_OFFSET(op.arg[2]) = 0
    /\ \E q \in ino_tree[a] :
         q.ino_startnum = op.arg[2] /\ 0 \notin q.sparse
    /\ bmap[a][XFS_AGINO_TO_AGBNO(op.arg[2])] = XR_E_INO

\* the in-core inventory of AG a holds a record for the chunk
InCore(a, rp) == \E q \in ino_tree[a] : q.ino_startnum = rp.startino

C9_ChunkBlockRule ==
  \A a \in AGs :
    LeafReady(a, "inowalk")
    => \A rp \in DiskInoRecs :
       \A r \in {scan_single_ino_chunk(a, rp, Top(a).suspect)} :
         LET v == verify_single_ino_chunk_align(a, rp, Top(a).suspect)
         IN (~v.skip /\ v.suspect = 0 /\ XFS_AGINO_TO_OFFSET(rp.startino) = 0)
            => \A j \in BlockOffsets :
                 ~ino_issparse(rp, j)
                 => LET b == XFS_AGINO_TO_AGBNO(rp.startino + j)
                    IN IF ~InoChunkConflict(a, rp.startino + j, bmap[a][b])
                         THEN r.m[b] = XR_E_INO
                         ELSE /\ "inode chunk claims used block" \in r.warns
                              /\ r.suspect > Top(a).suspect
                              /\ r.m[b] = XR_E_MULT

\* the record lies in the AG and no record of the inventory overlaps its chunk
Undiscovered(a, rp) ==
  /\ ~verify_single_ino_chunk_align(a, rp, Top(a).suspect).skip
  /\ find_inode_rec_range(a, rp.startino,
                          rp.startino + XFS_INODES_PER_CHUNK) = -1

\* the inventory r holds the chunk of rp with the free mask of rp
ImportedWithFreeMask(a, rp, r) ==
  \/ \E q \in r.tree :
       /\ q \notin ino_tree[a]
       /\ q.ino_startnum = rp.startino
       /\ q.free = rp.free
  \/ /\ r.tree = ino_tree[a]
     /\ \A j \in ChunkOffsets : <<rp.startino + j, j \in rp.free>> \in r.unc

StageRank(st) ==
  CASE st = "queued" -> 0
    [] st = "freelist" -> 1
    [] st = "bno" -> 2
    [] st = "bnowalk" -> 3
    [] st = "cnt" -> 4
    [] st = "cntwalk" -> 5
    [] st = "agfcheck" -> 6
    [] st = "ino" -> 7
    [] st = "inowalk" -> 8
    [] st = "fino" -> 9
    [] st = "finowalk" -> 10
    [] st = "agicheck" -> 11
    [] st = "release" -> 12
    [] st = "done" -> 13
    [] st = "exited" -> 14
    [] OTHER -> 0 - 1

\* the stage in which each visitor may act
VisitorStage(act) ==
  CASE act = "scan_freelist" -> {"freelist"}
    [] act \in {"scan_allocbt", "allocbt_rec"} -> {"bnowalk", "cntwalk"}
    [] act = "ino_chunk" -> {"inowalk"}
    [] act = "finobt_chunk" -> {"finowalk"}
    [] OTHER -> {}

WalkedSlots(flfirst, fllast) ==
  IF flfirst <= fllast
    THEN flfirst .. fllast
    ELSE (flfirst .. (AgflSize - 1)) \cup (0 .. fllast)

\* scan_freelist reaches its loop: the list is not empty and, when nothing
\* may be modified, flfirst and fllast are slots of the list
AgflWalkRuns(flcount, flfirst, fllast) ==
  /\ flcount # 0
  /\ ~(no_modify /\ (flfirst >= AgflSize \/ fllast >= AgflSize))

\* C20: when the AGFL walk runs it visits the slots from flfirst to fllast
\* inclusive, wrapping at the size of the list; every listed block of the AG
\* is FREE afterwards and no other block changes; the "freeblk count"
\* warning is emitted exactly when the number of slots walked differs from
\* flcount; the number of slots walked is added to the free data blocks of
\* the AG; and the scan of the AG goes on to the by-offset tree.
C20_AgflWalk ==
  [][\A a \in AGs :
       (/\ op'.act = "scan_freelist" /\ op'.agno = a
        /\ AgflWalkRuns(op'.arg[1], op'.arg[2], op'.arg[3])) =>
         LET flcount == op'.arg[1]
             freelist == op'.arg[4]
             walked == WalkedSlots(op'.arg[2], op'.arg[3])
             listed == {freelist[i] : i \in walked} \cap Blocks
         IN /\ \A b \in listed : bmap'[a][b] = XR_E_FREE
            /\ \A b \in Blocks \ listed : bmap'[a][b] = bmap[a][b]
            /\ ("freeblk count != flcount" \in warned')
                 <=> (Cardinality(walked) # flcount)
            /\ agcnts'[a].fdblocks = agcnts[a].fdblocks + Cardinality(walked)
            /\ pc'[a] = "bno"]_vars

\* C20 witness: a walk that wrapped from the last slot to the first, marked
\* a block FREE and walked more slots than flcount
C20_Witness ==
  \E a \in AGs :
    /\ op.act = "scan_freelist" /\ op.agno = a
    /\ AgflWalkRuns(op.arg[1], op.arg[2], op.arg[3])
    /\ op.arg[2] > op.arg[3]
    /\ "freeblk count != flcount" \in warned
    /\ \E i \in WalkedSlots(op.arg[2], op.arg[3]) :
         /\ op.arg[4][i] \in Blocks
         /\ bmap[a][op.arg[4][i]] = XR_E_FREE
    /\ agcnts[a].fdblocks = 2
    /\ pc[a] = "bno"


(***************************************************************************)
(* The extent-tree visitor, the buffers and the locks.                     *)
(***************************************************************************)
\* C11: while the walk of an extent tree runs in duplicate mode (check_dups
\* set) no step of it, at any level and on any return path, writes to the
\* block-state map or changes a field of the cursor of any level.
C11_DupScanFrame ==
  [][(lstack # <<>> /\ LTop.check_dups)
       => (bmap' = bmap /\ bm_cursor' = bm_cursor)]_vars

\* C11 witness: in duplicate mode an interior block has returned success
\* after the walk of the leaf below it, a block the map holds as UNKNOWN;
\* the cursor is still the fresh one and the map that of the scan
C11_Witness ==
  /\ Len(lstack) = 2
  /\ LTop.check_dups /\ LTop.kind = "ret" /\ LTop.err = 0 /\ LTop.level = 1
  /\ op.act = "bmapbt_node_end"
  /\ bm_cursor = InitCursor
  /\ bmap[0] = ScannedSlice
  /\ fuel[0].bm = 0

\* C12: when nothing may be modified no buffer is changed or written back:
\* no scan_lbtree call holds a set dirty flag, no key is rewritten, every
\* extent-tree buffer is released plainly whatever its CRC, scan_ag marks no
\* header buffer dirty and writes none back.
C12_NoModifyNoWrite ==
  [][no_modify =>
       /\ \A k \in 1 .. Len(lstack') : ~lstack'[k].dirty
       /\ op'.act = "scan_lbtree" => op'.arg = <<"putbuf", FALSE>>
       /\ \A a \in AGs : hdr_dirty'[a] = {}
       /\ op'.act = "scan_ag_end" => op'.arg = <<{}>>]_vars

\* C12 witness: with nothing to be modified a leaf has returned to an
\* interior block whose key differs from the first key of the leaf; the key
\* is reported, the buffer released, and the interior block stays clean
C12_Witness ==
  /\ no_modify
  /\ op.act = "scan_lbtree" /\ op.arg = <<"putbuf", FALSE>>
  /\ "bad btree key" \in warned
  /\ lstack # <<>> /\ LTop.kind = "node" /\ ~LTop.dirty

\* the steps that read or write the slice of the map of op.agno
MapAccess ==
  {"scan_freelist", "scan_allocbt", "allocbt_rec", "scan_inobt", "ino_chunk",
   "finobt_chunk", "bmapbt_claim"}

RECURSIVE SlotTotal(_, _)
SlotTotal(f, n) == IF n < 0 THEN 0 ELSE SlotTotal(f, n - 1) + f[n]

\* the tasks of AG a waiting in the queue
QueuedFor(a) == {k \in 1 .. Len(wq) : wq[k].agno = a}

\* C14: scan_ags queues exactly one task per AG, each with the slot of that
\* AG; a task is run by one worker, two tasks that run at the same time are
\* run by different workers, a slot is written only by the task of its AG,
\* and the totals are read from the slots only after every task has
\* finished.
C14_OneTaskPerAG ==
  /\ [](\A a \in AGs :
          /\ \A k \in 1 .. Len(wq) : wq[k].slot = wq[k].agno
          /\ Cardinality(QueuedFor(a)) <= 1
          /\ pc[a] # "exited" =>
               /\ Cardinality(QueuedFor(a)) = 1 <=> pc[a] = "queued"
               /\ pc[a] # "idle" <=> a < dispatch.i
          /\ Running(pc[a]) => worker[a] \in Workers
          /\ \A x \in AGs \ {a} :
               (Running(pc[a]) /\ Running(pc[x])) => worker[a] # worker[x]
          /\ dispatch.stage = "done" => pc[a] = "done")
  /\ [][\A a \in AGs :
          /\ worker[a] # 0 => worker'[a] = worker[a]
          /\ pc'[a] = "queued" => pc[a] \in {"idle", "queued"}
          /\ agcnts'[a] # agcnts[a] => (op'.agno = a /\ Running(pc[a]))
          /\ dispatch' # dispatch /\ dispatch'.stage = "done" =>
               /\ \A x \in AGs : pc[x] = "done"
               /\ dispatch'.fdblocks =
                    SumOver([x \in AGs |-> agcnts[x].fdblocks], AGs)]_vars

\* C14 witness: the totals have been taken after two workers ran the two
\* tasks, one of which counted a free block
C14_Witness ==
  /\ dispatch.stage = "done"
  /\ worker[0] = 1 /\ worker[NumAGs - 1] = 2
  /\ dispatch.fdblocks = 1
  /\ \A a \in AGs : pc[a] = "done"

C17_ReadFailureLocal ==
  (\E a \in AGs : op.act = "scan_ag" /\ op.agno = a /\ op.arg[1] # "none")
    ~> (dispatch.stage = "done")

LParent == lstack[Len(lstack) - 1]

\* the frame on top of the walk after the step
LTopNext == lstack'[Len(lstack')]

\* a scan_lbtree call of a normal scan has returned success to an interior
\* block whose key for the child is not the first key the cursor holds for
\* the level of the child
KeyMismatch ==
  /\ Len(lstack) >= 2
  /\ LParent.kind = "node" /\ ~LParent.check_dups /\ LTop.err = 0
  /\ LParent.pkey[LParent.i + 1] # bm_cursor[LParent.level - 1].first_key

\* C21: when the key an interior block holds for a child differs from the
\* first key of the child in the cursor, then with nothing to be modified
\* only the "bad btree key" warning is emitted and the keys and the dirty
\* flag of the block stay as they are; else the key is rewritten to the
\* first key of the child, the block is flagged dirty and "correcting bt
\* key" is emitted; in both modes the block goes on to its next pointer
\* without failure.
C21_KeyMismatch ==
  [][(op'.act = "scan_lbtree" /\ KeyMismatch) =>
       LET p == LParent
           k == bm_cursor[p.level - 1].first_key
       IN /\ LTopNext.kind = "node" /\ LTopNext.err = 0
          /\ LTopNext.i = p.i + 1
          /\ IF no_modify
               THEN /\ warned' = {"bad btree key"}
                    /\ LTopNext.pkey = p.pkey
                    /\ LTopNext.dirty = p.dirty
                    /\ op'.arg[2] = FALSE
               ELSE /\ warned' = {"correcting bt key"}
                    /\ LTopNext.pkey = [p.pkey EXCEPT ![p.i + 1] = k]
                    /\ LTopNext.dirty
                    /\ op'.arg[2] = TRUE]_vars

\* C21 witness: the image may be modified and the first key of an interior
\* block has been rewritten to the first key of its first leaf; the block
\* is dirty and goes on to its second pointer
C21_Witness ==
  /\ ~no_modify
  /\ op.act = "scan_lbtree" /\ op.arg[2] = TRUE
  /\ warned = {"correcting bt key"}
  /\ lstack # <<>> /\ LTop.kind = "node" /\ LTop.dirty /\ LTop.err = 0
  /\ LTop.i = 1 /\ LTop.numrecs = 2
  /\ LTop.pkey[1] = bm_cursor[LTop.level - 1].first_key

\* C23: in a normal scan the block of the visited node goes from UNKNOWN,
\* FREE1 or FREE to INUSE, from FS_MAP or INUSE to MULT with a warning, and
\* from MULT or INUSE_FS to MULT with a warning; no other block changes, and
\* in each of these cases the visitor goes on to the records of the node.
C23_BmapbtReconcile ==
  [][\A a \in AGs :
       (op'.act = "bmapbt_claim" /\ op'.agno = a) =>
         LET x == op'.arg[1]
             st == bmap[a][x]
         IN /\ st \in {XR_E_UNKNOWN, XR_E_FREE1, XR_E_FREE}
                 => (bmap'[a][x] = XR_E_INUSE /\ warned' = {})
            /\ st \in {XR_E_FS_MAP, XR_E_INUSE, XR_E_MULT, XR_E_INUSE_FS}
                 => /\ bmap'[a][x] = XR_E_MULT
                    /\ warned' = {"bmap block claimed"}
            /\ \A y \in Blocks \ {x} : bmap'[a][y] = bmap[a][y]
            /\ \A y \in AGs \ {a} : bmap'[y] = bmap[y]
            /\ st \in {XR_E_UNKNOWN, XR_E_FREE1, XR_E_FREE, XR_E_FS_MAP,
                       XR_E_INUSE, XR_E_MULT, XR_E_INUSE_FS}
                 => (LTopNext.kind = "body" /\ LTopNext.err = 0)]_vars

\* C23 witness: a block the AGFL walk had left FREE is INUSE after the
\* visitor claimed it, and the visitor is about to read its records
C23_Witness ==
  /\ op.act = "bmapbt_claim" /\ op.agno = 0 /\ op.arg[1] = 2
  /\ bmap[0][2] = XR_E_INUSE
  /\ warned = {}
  /\ lstack # <<>> /\ LTop.kind = "body"

\* C24: in a normal scan a block with a good header is accepted only when
\* the siblings agree with the cursor of its level: after another block of
\* the level, the block is the right sibling that block named and its left
\* sibling is that block; as the first block of the level its left sibling
\* is null.  An accepted block becomes the block of the cursor; otherwise
\* the visitor returns failure, and the cursor, the map and the locks are
\* as before.
C24_SiblingChain ==
  [][\A a \in AGs :
       (/\ op'.act = "scan_bmapbt" /\ op'.agno = a
        /\ ~op'.arg[2] /\ op'.arg[3]) =>
         LET f == LTop
             level == f.level - 1
             cur == bm_cursor[level]
             left == op'.arg[4]
             good == IF cur.fsbno # NULLFSBLOCK
                       THEN f.bno = cur.right_fsbno /\ left = cur.fsbno
                       ELSE left = NULLFSBLOCK
         IN IF good
              THEN /\ LTopNext.kind = "locked" /\ LTopNext.err = 0
                   /\ bm_cursor'[level].fsbno = f.bno
                   /\ bm_cursor'[level].left_fsbno = left
              ELSE /\ LTopNext.kind = "ret" /\ LTopNext.err = 1
                   /\ bm_cursor' = bm_cursor
                   /\ bmap' = bmap
                   /\ ag_locks' = ag_locks]_vars

\* C24 witness: the second leaf of a level has been accepted: its left
\* sibling is the first leaf, which named it as right sibling
C24_Witness ==
  /\ op.act = "scan_bmapbt" /\ ~op.arg[2] /\ op.arg[3]
  /\ op.arg[4] # NULLFSBLOCK
  /\ lstack # <<>> /\ LTop.kind = "locked" /\ LTop.level = 0
  /\ bm_cursor[0].fsbno = LTop.bno
  /\ bm_cursor[0].left_fsbno = op.arg[4]

\* C25: in a normal scan an interior block without right sibling fails
\* after its last child when that child has a right sibling; so when the
\* walk of a fork has succeeded, the last block visited on every level has
\* no right sibling.
C25_RightmostNull ==
  [][/\ (/\ op'.act = "bmapbt_node_end" /\ ~LTop.check_dups
         /\ bm_cursor[LTop.level].right_fsbno = NULLFSBLOCK
         /\ bm_cursor[LTop.level - 1].right_fsbno # NULLFSBLOCK)
        => (LTopNext.kind = "ret" /\ LTopNext.err = 1)
     /\ (op'.act = "fork_end" /\ op'.arg = <<0, FALSE>>)
        => \A l \in BmLevels :
             bm_cursor[l].fsbno # NULLFSBLOCK
               => bm_cursor[l].right_fsbno = NULLFSBLOCK]_vars

(***************************************************************************)
(* Freespace records and the counters of the AG.                           *)
(***************************************************************************)
\* the states a block has when something other than a by-offset record
\* took it: the AGFL, a tree block, the headers, an inode chunk, or two
\* claims at once
ClaimedElsewhere ==
  {XR_E_FREE, XR_E_FS_MAP, XR_E_INUSE_FS, XR_E_INO, XR_E_MULT}

\* C22: when the scan of an AG is complete and the by-count tree gave no
\* record, every block of an in-range by-offset record that nothing else
\* took is FREE1 and the computed free-block count of the AG is zero; and a
\* by-offset record never changes the counters of the AG.
C22_LoneByOffsetRecord ==
  /\ [](\A a \in AGs :
          (pc[a] = "done" /\ agcnts[a].agflongest = 0) =>
            /\ agcnts[a].agffreeblks = 0
            /\ \A x \in bnoseen[a] :
                 bmap[a][x] \in {XR_E_FREE1} \cup ClaimedElsewhere)
  /\ [][\A a \in AGs :
          (op'.act = "allocbt_rec" /\ op'.agno = a /\ pc[a] = "bnowalk")
            => agcnts'[a] = agcnts[a]]_vars

\* the step has run scan_allocbt on a block of AG a, and the visitor got
\* past its magic and level checks: neither failed on a suspect block
ReachedAllocbtClaim(a) ==
  /\ op'.act = "scan_allocbt" /\ op'.agno = a
  /\ ~(op'.arg[2] # 0 /\ op'.arg[3] # 0)

\* C26: when the freespace visitor gets past the magic and level checks of
\* a block, the block becomes FS_MAP if it is UNKNOWN; in any other state it
\* becomes MULT, a warning is emitted and the visitor returns without its
\* records or pointers; no other block changes.  A suspect block that fails
\* the magic or level check is returned from with the map as it was.
C26_AllocbtReconcile ==
  [][\A a \in AGs :
       (op'.act = "scan_allocbt" /\ op'.agno = a) =>
         LET x == op'.arg[1]
             st == bmap[a][x]
         IN /\ \A y \in Blocks \ {x} : bmap'[a][y] = bmap[a][y]
            /\ IF ReachedAllocbtClaim(a)
                 THEN IF st = XR_E_UNKNOWN
                        THEN /\ bmap'[a][x] = XR_E_FS_MAP
                             /\ "freespace btree block claimed" \notin warned'
                        ELSE /\ bmap'[a][x] = XR_E_MULT
                             /\ "freespace btree block claimed" \in warned'
                             /\ stack'[a] = Pop(a)
                 ELSE /\ bmap'[a][x] = st
                      /\ stack'[a] = Pop(a)]_vars

\* C26 witness: the by-count tree has given a block the by-offset tree had
\* taken as FS_MAP: the block is MULT, the warning is out, and the visitor
\* has returned to scan_ag with nothing left to walk
C26_Witness ==
  \E a \in AGs :
    /\ op.act = "scan_allocbt" /\ op.agno = a /\ pc[a] = "cntwalk"
    /\ op.arg[2] = 0 /\ op.arg[3] = 0
    /\ bmap[a][op.arg[1]] = XR_E_MULT
    /\ warned = {"freespace btree block claimed"}
    /\ stack[a] = <<>>

\* C26 as stated: whenever the freespace visitor visits a block, the block
\* becomes FS_MAP only if it is UNKNOWN, and a block in any other state
\* becomes MULT with a warning and the visitor returns without its records
\* or pointers.
C26_EveryVisitReconciles ==
  [][\A a \in AGs :
       (op'.act = "scan_allocbt" /\ op'.agno = a) =>
         LET x == op'.arg[1]
             st == bmap[a][x]
         IN IF st = XR_E_UNKNOWN
              THEN bmap'[a][x] \in {XR_E_UNKNOWN, XR_E_FS_MAP}
              ELSE /\ bmap'[a][x] = XR_E_MULT
                   /\ "freespace btree block claimed" \in warned'
                   /\ stack'[a] = Pop(a)]_vars

\* C27: every buffer the scan gets is released exactly once before the
\* function that read it returns: scan_freelist gives back as many AGFL
\* buffers as it got, and scan_lbtree ends each call with one release of the
\* block, plain or as a write.
C27_BuffersReleasedOnce ==
  [][/\ op'.act = "scan_freelist" => op'.arg[5][1] = op'.arg[5][2]
     /\ op'.act = "scan_lbtree" => op'.arg[1] \in {"putbuf", "writebuf"}]_vars

(***************************************************************************)
(* The suspect flag of the short-tree walks.                               *)
(***************************************************************************)
\* the steps in which a visitor of a short tree checks the header of a block
SbtreeVisit == {"scan_allocbt", "scan_inobt"}

\* the frame on top of the walk of AG a after the step
TopNext(a) == stack'[a][Len(stack'[a])]

\* C28: in the freespace and inode short-tree walks a magic or level error
\* on a block entered with the suspect flag set ends the visit, and so does
\* a record count out of bounds on such an interior block; a block with a
\* header error that was entered without the flag goes on with the flag set;
\* an interior block without header error goes on with the flag cleared and
\* a leaf without header error keeps it; every child is entered with the
\* flag of its parent, so no interior block being walked holds a flag above
\* one.  A leaf whose only header error is its record count is walked with
\* the clipped count even when it was entered suspect.
C28_SuspectPropagation ==
  /\ [](\A a \in AGs : \A k \in 1 .. Len(stack[a]) :
          stack[a][k].kind = "node" => stack[a][k].suspect \in {0, 1})
  /\ [][\A a \in AGs :
          /\ (op'.act \in SbtreeVisit /\ op'.agno = a) =>
               LET leaf == Top(a).level - 1 = 0
                   hdr0 == op'.arg[2]
                   sus == op'.arg[3]
                   nbad == op'.arg[4]
                   popped == stack'[a] = Pop(a)
               IN /\ (hdr0 # 0 /\ sus # 0) => popped
                  /\ (~leaf /\ nbad /\ sus # 0) => popped
                  /\ (~popped /\ (hdr0 # 0 \/ nbad)) =>
                       /\ TopNext(a).suspect = sus + 1
                       /\ ~leaf => sus = 0
                  /\ (~popped /\ ~leaf /\ hdr0 = 0 /\ ~nbad) =>
                       TopNext(a).suspect = 0
                  /\ (~popped /\ leaf /\ hdr0 = 0 /\ ~nbad) =>
                       TopNext(a).suspect = sus
                  /\ (leaf /\ nbad /\ hdr0 = 0) =>
                       (~popped /\ TopNext(a).kind = "leaf")
          /\ (/\ op'.act = "btree_ptr" /\ op'.agno = a
              /\ Len(stack'[a]) > Len(stack[a])) =>
               /\ TopNext(a).kind = "call"
               /\ TopNext(a).suspect = Top(a).suspect]_vars

\* C28 witness: an interior block with a header error was entered without
\* the flag and walked with the flag set; its child, read without CRC
\* error, had a bad magic or level and the visit of the child ended there
C28_Witness ==
  \E a \in AGs :
    /\ op.act = "scan_allocbt" /\ op.agno = a
    /\ op.arg[2] # 0 /\ op.arg[3] = 1
    /\ "btree block is suspect" \notin warned
    /\ Len(stack[a]) = 1
    /\ Top(a).kind = "node" /\ Top(a).suspect = 1 /\ Top(a).i = 1

\* C28 as stated: a header error (magic, level or record count) on a block
\* that was entered suspect ends the visit of the block; a header error on
\* a block entered without the flag sets it; an interior block without
\* header error clears it.
C28_HeaderErrorOnSuspectAborts ==
  [][\A a \in AGs :
       (op'.act \in SbtreeVisit /\ op'.agno = a) =>
         LET leaf == Top(a).level - 1 = 0
             hdrerr == op'.arg[2] # 0 \/ op'.arg[4]
             sus == op'.arg[3]
             popped == stack'[a] = Pop(a)
         IN /\ (hdrerr /\ sus # 0) => popped
            /\ (~popped /\ hdrerr) => TopNext(a).suspect # 0
            /\ (~popped /\ ~leaf /\ ~hdrerr) => TopNext(a).suspect = 0]_vars

\* C29: a freespace leaf record with start 0, a start that is no block of
\* the AG, length 0 or an end beyond the AG is skipped: the map and the
\* counters of the AG are as before, and the visitor goes on to the next
\* record of the leaf.
C29_InvalidRecordSkipped ==
  [][\A a \in AGs :
       (/\ op'.act = "allocbt_rec" /\ op'.agno = a
        /\ ~InRangeRec(op'.arg[1], op'.arg[2])) =>
         /\ bmap' = bmap
         /\ agcnts' = agcnts
         /\ bnoseen' = bnoseen
         /\ TopNext(a) = [Top(a) EXCEPT !.i = @ + 1]]_vars

\* C30: each valid by-count leaf record adds its length to the free-block
\* count of the AG and to the free-data-block count and raises the longest
\* counter to at least its length; by-offset records change none of the
\* counters; and the counters change under no other record, so that after
\* the scan agffreeblks is the sum of the lengths of the valid by-count
\* records and agflongest their maximum.
C30_ByCountCounters ==
  [][\A a \in AGs :
       (op'.act = "allocbt_rec" /\ op'.agno = a) =>
         LET len == op'.arg[2]
             valid == InRangeRec(op'.arg[1], len)
             c == agcnts[a]
         IN /\ (pc[a] = "cntwalk" /\ valid) =>
                 /\ agcnts'[a].agffreeblks = c.agffreeblks + len
                 /\ agcnts'[a].fdblocks = c.fdblocks + len
                 /\ agcnts'[a].agflongest =
                      IF len > c.agflongest THEN len ELSE c.agflongest
            /\ pc[a] = "bnowalk" => agcnts'[a] = c
            /\ agcnts'[a] # c => (pc[a] = "cntwalk" /\ valid)]_vars

(***************************************************************************)
(* The bounds of the record counts.                                        *)
(***************************************************************************)
\* a frame of a block being walked holds a count within the bounds of its
\* level, and the walk is at most at the end of it
FrameInBounds(f) ==
  /\ f.numrecs <= MxRecs
  /\ f.i <= f.numrecs
  /\ ~f.isroot => f.numrecs >= MnRecs

\* C31: the freespace and inode-tree visitors never walk more than the
\* maximum of records or pointers of a block; a count above the maximum is
\* a header error, and so is a count below the minimum in a block that is
\* not the root, while the root may hold fewer without error; the
\* extent-tree visitor returns failure for a block whose count is above
\* the maximum or, when the block is not the root, below the minimum, and
\* walks every other block with the count it holds.
C31_RecordBounds ==
  /\ [](/\ \A a \in AGs : \A k \in 1 .. Len(stack[a]) :
             stack[a][k].kind \in {"leaf", "node"}
               => FrameInBounds(stack[a][k])
        /\ \A k \in 1 .. Len(lstack) :
             lstack[k].kind = "node" => FrameInBounds(lstack[k]))
  /\ [][/\ \A a \in AGs :
             (/\ op'.act \in SbtreeVisit /\ op'.agno = a
              /\ op'.arg[5] # <<>>) =>
               LET n == op'.arg[5][1]
                   isroot == Top(a).isroot
                   bad == op'.arg[4]
                   popped == stack'[a] = Pop(a)
               IN /\ bad <=> (n > MxRecs \/ (~isroot /\ n < MnRecs))
                  /\ (bad /\ ~popped) =>
                       TopNext(a).suspect = op'.arg[3] + 1
                  /\ ~popped =>
                       TopNext(a).numrecs =
                         IF n > MxRecs THEN MxRecs
                         ELSE IF ~isroot /\ n < MnRecs THEN MnRecs
                         ELSE n
        /\ op'.act = "bmapbt_body" =>
             LET n == op'.arg[1]
                 bad == n > MxRecs \/ (~LTop.isroot /\ n < MnRecs)
             IN /\ bad => /\ LTopNext.kind = "ret" /\ LTopNext.err = 1
                          /\ warned' = {"bad # of bmap records"}
                /\ (~bad /\ LTop.level > 0) =>
                     (LTopNext.kind = "node" /\ LTopNext.numrecs = n)
                /\ ~bad => "bad # of bmap records" \notin warned']_vars

\* C31 witness: a leaf below the root of a freespace tree holds no record:
\* the count is a header error and the leaf is walked with the minimum
C31_Witness ==
  \E a \in AGs :
    /\ op.act = "scan_allocbt" /\ op.agno = a
    /\ op.arg[5] = <<0>> /\ op.arg[4]
    /\ Len(stack[a]) = 2
    /\ Top(a).kind = "leaf" /\ ~Top(a).isroot
    /\ Top(a).numrecs = MnRecs /\ Top(a).suspect = op.arg[3] + 1

(***************************************************************************)
(* An AG whose headers are bad when nothing may be modified.               *)
(***************************************************************************)
\* the step has run scan_ag on AG a up to the test of the status, with every
\* header read, and the status has a bit of the set bits
VerifiedWith(a, bits) ==
  /\ op'.act = "scan_ag" /\ op'.agno = a
  /\ op'.arg[1] = "none"
  /\ op'.arg[2] \cap bits # {}

\* the AG is left as it was: no walk is started, its slice of the map and
\* its counters are unchanged, and the three header buffers are released
\* with none marked dirty
SkippedAg(a) ==
  /\ pc'[a] = "done"
  /\ stack'[a] = <<>>
  /\ bmap'[a] = bmap[a]
  /\ agcnts'[a] = agcnts[a]
  /\ hdr_dirty'[a] = {}
  /\ op'.arg[3] = HdrBufs

\* C32: with nothing to be modified, an AG for which the header pass reports
\* a bad superblock, AGF or AGI is skipped: no walk is started, the slice of
\* the map and the counters of the AG are unchanged, and the three header
\* buffers are released without write; an AG that is done is never walked
\* afterwards.  A status of XR_AG_SB_SEC alone does not skip the AG.
C32_BadHeaderSkipsAg ==
  [][\A a \in AGs :
       /\ (no_modify /\ VerifiedWith(a, {XR_AG_SB, XR_AG_AGF, XR_AG_AGI}))
            => (SkippedAg(a) /\ "bad uncorrected agheader" \in warned')
       /\ (/\ no_modify /\ VerifiedWith(a, {XR_AG_SB_SEC})
           /\ op'.arg[2] = {XR_AG_SB_SEC})
            => (pc'[a] = "freelist" /\ hdr_dirty'[a] = {})
       /\ pc[a] = "done" =>
            /\ pc'[a] \in {"done", "exited"}
            /\ stack'[a] = stack[a] /\ agcnts'[a] = agcnts[a]]_vars

\* C32 witness: with nothing to be modified the header pass has reported a
\* bad AGF; the AG is done with its buffers released and without a walk
C32_Witness ==
  \E a \in AGs :
    /\ no_modify
    /\ op.act = "scan_ag" /\ op.agno = a
    /\ op.arg = <<"none", {XR_AG_AGF}, HdrBufs>>
    /\ pc[a] = "done"
    /\ "bad uncorrected agheader" \in warned
    /\ \A b \in Blocks : bmap[a][b] \in {XR_E_INUSE_FS, XR_E_UNKNOWN}
    /\ agcnts[a].fdblocks = 0

\* C32 as stated: with nothing to be modified, an AG for which the header
\* pass reports any problem is skipped.
C32_AnyProblemSkipsAg ==
  [][\A a \in AGs :
       (no_modify /\ VerifiedWith(a, StatusBits)) => SkippedAg(a)]_vars

(***************************************************************************)
(* The alignment check of the inode chunk records.                         *)
(***************************************************************************)
\* the first or the last inode of the chunk that starts at ino is no inode
\* of the AG
ChunkOutOfBounds(ino) ==
  \/ ino = 0
  \/ ino \div geom.inopblock >= AgBlocks
  \/ (ino + XFS_INODES_PER_CHUNK - 1) \div geom.inopblock >= AgBlocks

\* the chunk starts inside a block or inside a chunk of a block, or at a
\* block the inode alignment of the image rules out
ChunkMisaligned(ino) ==
  \/ (geom.inopblock <= XFS_INODES_PER_CHUNK /\ ino % geom.inopblock # 0)
  \/ (geom.inopblock > XFS_INODES_PER_CHUNK
      /\ (ino % geom.inopblock) % XFS_INODES_PER_CHUNK # 0)
  \/ (geom.align # 0 /\ (ino \div geom.inopblock) % geom.align # 0)

\* the step has run scan_single_ino_chunk on a record of AG a
InoChunkStep(a) == op'.act = "ino_chunk" /\ op'.agno = a

\* the inodes of the chunk that starts at ino, as entries of the uncertain
\* list with either status
ChunkEntries(ino) ==
  {<<ino + j, fr>> : j \in ChunkOffsets, fr \in BOOLEAN}

ChunksOverlap(i, j) ==
  i < j + XFS_INODES_PER_CHUNK /\ j < i + XFS_INODES_PER_CHUNK

\* the authoritative records of AG a that share an inode with the chunk
\* that starts at ino
OverlappingRecs(a, ino) ==
  {q \in ino_tree[a] : ChunksOverlap(q.ino_startnum, ino)}

\* C34: no two authoritative records of an AG share an inode.  A record
\* whose chunk overlaps a record of the inventory makes no authoritative
\* record: when a record of the inventory starts at the same inode nothing
\* is imported, otherwise the record is imported, if at all, by adding the
\* inodes of its chunk as uncertain entries.  A record that finds
\* the leaf without suspicion and raises none makes exactly one
\* authoritative record, for its own chunk, and no uncertain entry.
C34_OneRecordPerChunk ==
  /\ [](\A a \in AGs : \A q1 \in ino_tree[a], q2 \in ino_tree[a] :
          q1 # q2 => ~ChunksOverlap(q1.ino_startnum, q2.ino_startnum))
  /\ [][\A a \in AGs :
          InoChunkStep(a) =>
            LET ino == op'.arg[2]
                over == OverlappingRecs(a, ino)
                same == {q \in over : q.ino_startnum = ino}
                new == ino_tree'[a] \ ino_tree[a]
            IN /\ ino_tree[a] \subseteq ino_tree'[a]
               /\ over # {} =>
                    /\ new = {}
                    /\ TopNext(a).suspect > Top(a).suspect
               /\ same # {} =>
                    (~op'.arg[1] /\ uncertain' = uncertain)
               /\ (over # {} /\ same = {}) =>
                    /\ uncertain[a] \subseteq uncertain'[a]
                    /\ uncertain'[a] \ uncertain[a]
                         \subseteq ChunkEntries(ino)
                    /\ op'.arg[1] =>
                         \A j \in ChunkOffsets :
                           \E fr \in BOOLEAN :
                             <<ino + j, fr>> \in uncertain'[a]
                    /\ ~op'.arg[1] => uncertain' = uncertain
               /\ (Top(a).suspect = 0 /\ TopNext(a).suspect = 0) =>
                    /\ Cardinality(new) = 1
                    /\ \A q \in new : q.ino_startnum = ino
                    /\ uncertain' = uncertain
                    /\ over = {}]_vars

\* C34 witness: the second record of a leaf overlaps the authoritative
\* record the first one made and starts at another inode: the inventory
\* still holds the one record, and the inodes of the second are uncertain
C34_Witness ==
  \E a \in AGs :
    /\ op.act = "ino_chunk" /\ op.agno = a /\ op.arg[1]
    /\ "overlaps existing rec" \in warned
    /\ Cardinality(ino_tree[a]) = 1
    /\ \A q \in ino_tree[a] :
         /\ q.ino_startnum # op.arg[2]
         /\ ChunksOverlap(q.ino_startnum, op.arg[2])
    /\ uncertain[a] # {}
    /\ Top(a).i = 2

(***************************************************************************)
(* The result of scan_lbtree.                                              *)
(***************************************************************************)
\* a scan_lbtree call returns in this step: the visitor has returned and the
\* buffer is released
LbtreeReturns == Len(lstack) >= 2 /\ LTop.kind = "ret"
                 /\ op'.act = "scan_lbtree"

\* libxfs_readbuf gives no buffer to a scan_lbtree call in this step
LbtreeReadFails == lstack # <<>> /\ LTop.kind = "call"
                   /\ op'.act = "lbtree_readerr"

\* the caller of the scan_lbtree call that ends in this step fails at once:
\* an interior block returns 1 and process_btinode leaves its loop, without
\* a step to the next pointer
CallerFails ==
  /\ Len(lstack') = Len(lstack) - 1
  /\ LTopNext.err = 1
  /\ LTopNext.i = LParent.i
  /\ LTopNext.kind = (IF LParent.kind = "node" THEN "ret" ELSE "fork")

\* what holds of every scan_lbtree call that gets its buffer: the caller
\* fails at once exactly when the visitor returns non-zero, else it goes on
\* to the next pointer; where the image may be modified a block read with
\* a bad CRC is written back, whatever the visitor did and returned
LbtreeResultWithBuffer ==
  [][LbtreeReturns =>
       /\ LTop.err # 0 => CallerFails
       /\ LTop.err = 0 =>
            (LTopNext.err = 0 /\ LTopNext.i = LParent.i + 1
             /\ LTopNext.kind = LParent.kind)
       /\ (LTop.badcrc /\ ~no_modify) => op'.arg[1] = "writebuf"
       /\ no_modify => op'.arg[1] = "putbuf"]_vars

\* C35: scan_lbtree returns non-zero exactly when the block cannot be read
\* or the visitor reports failure, and a failure of a child makes the
\* parent fail at once without a visit of the remaining children; where the
\* image may be modified a block read with a bad CRC is written back even
\* when the visitor left it clean and reported success.
C35_LbtreeResult ==
  [][/\ LbtreeReadFails => (CallerFails /\ pc' = pc)
     /\ LbtreeReturns =>
          /\ LTop.err # 0 => CallerFails
          /\ LTop.err = 0 =>
               (LTopNext.err = 0 /\ LTopNext.i = LParent.i + 1
                /\ LTopNext.kind = LParent.kind)
          /\ (LTop.badcrc /\ ~no_modify) => op'.arg[1] = "writebuf"]_vars

\* a block read with a bad CRC, left clean by a visitor that returned 0, has
\* been written back
LbtreeBadCrcWritten ==
  /\ op.act = "scan_lbtree" /\ op.arg = <<"writebuf", FALSE>>
  /\ lstack # <<>> /\ LTop.err = 0 /\ ~LTop.dirty

\* a read of a block of an extent tree has failed
LbtreeReadFailed == op.act = "lbtree_readerr"

(***************************************************************************)
(* The walk of a freespace or inode tree ends.                             *)
(***************************************************************************)
\* the work left in one scan_sbtree call: a call not yet run outweighs every
\* visited block, a visited block weighs the records and pointers left
FrameRank(f) ==
  IF f.kind = "call" THEN MxRecs + 2 ELSE (f.numrecs - f.i) + 1

RankBase == MxRecs + 3

RECURSIVE Pow(_, _)
Pow(b, n) == IF n = 0 THEN 1 ELSE b * Pow(b, n - 1)

\* the work left in the walk of AG a: the ranks of the calls on the stack,
\* the outer calls weighing more than everything inside them
RECURSIVE WalkRankFrom(_, _)
WalkRankFrom(a, k) ==
  IF k > Len(stack[a]) THEN 0
  ELSE FrameRank(stack[a][k]) * Pow(RankBase, DeepLevels - k)
       + WalkRankFrom(a, k + 1)

WalkRank(a) == WalkRankFrom(a, 1)

\* the visitor reports in this step that bb_level is not the level expected
LevelMismatch(a) ==
  /\ op'.act \in SbtreeVisit /\ op'.agno = a
  /\ "expected level" \in warned'

\* the visitor of this step returns from the block without a look at its
\* records or pointers
VisitReturns(a) == Len(stack'[a]) = Len(stack[a]) - 1

\* C36: the walk of a freespace or inode tree ends for every image, whatever
\* the child pointers and the level count of the header are: every step of the
\* walk lowers the work left, a natural number, and the calls are
\* never nested deeper than the larger of two and the level count; each
\* descent lowers the expected level by one and a block at expected level 0
\* never descends.  A block whose bb_level is not the expected level returns
\* at once when it was entered as suspect; else it goes on as the expected
\* level says and enters its children as suspect, and of two interior blocks
\* in a row that look bad the lower one never descends, while a child with a
\* good header descends again.
C36_WalkTerminates ==
  /\ [](\A a \in AGs :
          /\ Len(stack[a]) <= DeepLevels
          /\ \A k \in 1 .. Len(stack[a]) :
               LET f == stack[a][k]
               IN /\ f.kind = "leaf" <=> (f.kind # "call" /\ f.level = 0)
                  /\ f.i <= f.numrecs
                  /\ k > 1 =>
                       LET p == stack[a][k - 1]
                       IN /\ p.kind = "node" /\ p.level # 0
                          /\ f.level = (IF f.kind = "call" THEN p.level
                                        ELSE p.level - 1)
                          /\ ~(f.kind = "node" /\ f.suspect # 0
                               /\ p.suspect # 0))
  /\ [][\A a \in AGs :
          /\ stack[a] # <<>> => WalkRank(a)' < WalkRank(a)
          /\ LevelMismatch(a) =>
               /\ op'.arg[3] # 0 => VisitReturns(a)
               /\ (~VisitReturns(a) /\ TopNext(a).kind = "node")
                    => TopNext(a).suspect # 0]_vars

\* C36 witness: below a root whose bb_level was not the expected level a
\* child with a good header has descended, and the walk is three calls deep
\* in a leaf whose records are read
C36_Witness ==
  \E a \in AGs :
    /\ Len(stack[a]) = DeepLevels
    /\ stack[a][1].suspect # 0 /\ stack[a][2].suspect = 0
    /\ Top(a).kind = "leaf" /\ Top(a).i = 1
    /\ op.act = "allocbt_rec"

\* the root of the walk of AG a is expected at level MaxLevels or above,
\* which no bb_level of the image is, and the visitor has gone on below it
RootMismatched(a) ==
  /\ stack[a] # <<>>
  /\ stack[a][1].kind = "node"
  /\ stack[a][1].level >= MaxLevels

\* C36 as stated: a block whose bb_level is not the expected level stops
\* the descent within one further level, so that the walk below a
\* mismatching root is never more than two calls deep.
C36_MismatchStopsDescent ==
  \A a \in AGs : RootMismatched(a) => Len(stack[a]) <= 2

(***************************************************************************)
(* The lock of an AG in the extent-tree visitor.                           *)
(***************************************************************************)
\* the AGs whose lock is held
HeldLocks == {a \in AGs : ag_locks[a]}

\* the steps of the walk of an extent tree that read a buffer, call
\* scan_lbtree on a child or return from a call
ReadCallOrReturn ==
  {"process_btinode", "bmbt_ptr", "scan_bmapbt", "lbtree_readerr",
   "bmapbt_body", "bmapbt_node_end", "scan_lbtree", "fork_end"}

\* C37: the lock of an AG that scan_bmapbt takes is dropped on every path
\* before the visitor returns or calls scan_lbtree on a child: a lock is
\* held only by the visitor of a block of that AG between its sibling checks
\* and its record count, the one step taken with a lock held is the claim of
\* the block in the map, which drops it, and no buffer is read, no call made
\* and no call returned from with a lock held; the walk never holds two
\* locks, so it never waits for one lock with another held.
C37_LockReleasedBeforeReturn ==
  /\ [](/\ Cardinality(HeldLocks) <= 1
        /\ \A a \in AGs :
             ag_locks[a] <=> /\ lstack # <<>>
                             /\ LTop.kind = "locked"
                             /\ XFS_FSB_TO_AGNO(LTop.bno) = a)
  /\ [][/\ HeldLocks # {} =>
             /\ op'.act = "bmapbt_claim" /\ op'.agno \in HeldLocks
             /\ HeldLocks' = {}
             /\ Len(lstack') = Len(lstack)
             /\ LTopNext.kind = "body" /\ LTopNext.err = 0
        /\ op'.act \in ReadCallOrReturn => HeldLocks = {}
        /\ HeldLocks' # {} => (op'.act = "scan_bmapbt" /\ HeldLocks = {})]_vars

\* C37 witness: under an interior block of AG 0 the visitor of a block of
\* AG 1 has claimed its block and dropped the lock of AG 1, and no lock is
\* held
C37_Witness ==
  /\ Len(lstack) = 3
  /\ XFS_FSB_TO_AGNO(LParent.bno) = 0 /\ XFS_FSB_TO_AGNO(LTop.bno) = 1
  /\ op.act = "bmapbt_claim" /\ op.agno = 1
  /\ LTop.kind = "body"
  /\ HeldLocks = {}
====
